---- MODULE Spec2Model ----
(***************************************************************************)
(* The collaborative session layer of the document server: socket          *)
(* authentication, the get-document (join) handler with its suspension     *)
(* points, the relay handlers, the disconnect handler, the in-memory       *)
(* documentUsers registry, socket.io room membership, the save-document    *)
(* handler, the share-link requests of the document controller, the        *)
(* document router and the document collection they read and write.        *)
(***************************************************************************)
EXTENDS Integers, Sequences, FiniteSets, Bags, TLC

(* ------------------------------ bounds -------------------------------- *)

\* number of sockets that open a connection during a run
NumConns == 2
\* number of get-document handlers that may be suspended at the same time
MaxTasks == 2
\* number of get-document requests the clients send during a run
MaxRequests == 3
\* number of palette colors told apart (the palette of generateUserColor)
NumColors == 2
\* number of save-document requests the clients send during a run
MaxSaves == 2
\* number of share tokens generated, the one of the initial store included
MaxTokens == 2
\* number of sockets that open a connection where the order of a room's
\* roster is followed
NumRosterConns == 3

(* ----------------------------- universes ------------------------------ *)

Conns == 1..NumConns
NoConn == 0
Colors == 1..NumColors
NoColor == 0

\* the User collection; "UGhost" is an id no User record has
Users == {"UA", "UB", "UC"}
NoUser == "none"
NoName == "none"
UserName(u) ==
    IF u = "UA" THEN "alice" ELSE IF u = "UB" THEN "bob" ELSE IF u = "UC" THEN "carol" ELSE NoName

\* handshake tokens: absent, one jwt.verify rejects, and signed tokens by id
HandshakeTokens == {"absent", "invalid", "jwt:UA", "jwt:UB", "jwt:UGhost"}

\* the tokens signed for the users of the collection
SignedTokens == {"jwt:UA", "jwt:UB", "jwt:UC"}

Docs == {"D1", "D2"}
NullDoc == "null"

\* share tokens a client can present; "absent" is undefined or ""
NoShareToken == "absent"
ShareTokens == {"T1"}

\* the k-th token crypto.randomBytes(32) yields: no two are equal
IssuedToken(k) == << "T1", "T2", "T3", "T4" >>[k]

Permissions == {"viewer", "editor"}

\* a permission the request body can carry besides those, and none at all
NoPermission == "absent"
OtherPermissions == {"admin", NoPermission}

\* the payload of the k-th save-document request of a run
Payload(k) == << "P1", "P2", "P3", "P4" >>[k]

\* relay payloads a client can send
NoPayload == "absent"
Deltas == {"delta1"}
Titles == {"title1"}
NotAString == "not-a-string"

(* ------------------------------ records ------------------------------- *)

\* the schema's default of title
DefaultTitle == "Untitled Document"

\* the shareLink sub-document with the schema's defaults
DefaultShareLink == [token |-> NoShareToken, permission |-> "viewer", enabled |-> FALSE]

\* store[d] of a document id with no record
AbsentDoc ==
    [exists |-> FALSE, owner |-> NoUser, collaborators |-> << >>,
     shareLink |-> DefaultShareLink, data |-> "empty", title |-> DefaultTitle]

\* Document.create({ _id: id, data: defaultValue })
CreatedDoc ==
    [exists |-> TRUE, owner |-> NoUser, collaborators |-> << >>,
     shareLink |-> DefaultShareLink, data |-> "empty", title |-> DefaultTitle]

\* currentUserInfo = null
NullInfo == [socketId |-> NoConn, userId |-> NoUser, username |-> NoName, color |-> NoColor]

\* no suspended handler
NoTask ==
    [conn |-> NoConn, documentId |-> NullDoc, shareToken |-> NoShareToken,
     pc |-> "none", document |-> AbsentDoc]

\* no suspended save-document handler
NoSave ==
    [conn |-> NoConn, documentId |-> NullDoc, data |-> "none", callback |-> FALSE,
     pc |-> "none"]

\* the public fields the presence events carry
PublicInfo(u) == [userId |-> u.userId, username |-> u.username, color |-> u.color]
NoPublic == [userId |-> NoUser, username |-> NoName, color |-> NoColor]

RECURSIVE MapPublic(_)
MapPublic(users) ==
    IF users = << >> THEN << >>
    ELSE << PublicInfo(Head(users)) >> \o MapPublic(Tail(users))

(* ------------------------------- state -------------------------------- *)

VARIABLES
    conn,               \* socket -> "idle" | "connected" | "closed"
    handshake,          \* socket -> the token of its handshake
    user,               \* socket -> socket.user
    currentDocumentId,  \* socket -> the closure variable of its connection handler
    currentUserInfo,    \* socket -> the closure variable of its connection handler
    rooms,              \* socket -> socket.io rooms the adapter lists it in
    documentUsers,      \* the registry: document id -> Map in insertion order
    store,              \* the Document collection
    tasks,              \* the bag of suspended get-document handlers
    requests,           \* get-document requests received so far
    joined,             \* sockets whose get-document handler reached the registry insert
    last,               \* the handler step that ran last
    out,                \* what that step emitted, in order
    saves,              \* the bag of suspended save-document handlers
    saveRequests,       \* save-document requests received so far
    disabled,           \* documents whose disableShareLink request has completed
    lastTask,           \* the get-document handler the last step belonged to
    lastSave,           \* the save-document handler the last step belonged to
    issued              \* share tokens generated so far

vars ==
    << conn, handshake, user, currentDocumentId, currentUserInfo, rooms,
       documentUsers, store, tasks, requests, joined, last, out,
       saves, saveRequests, disabled, lastTask, lastSave, issued >>

(* ------------------------- socket.io delivery -------------------------- *)

\* sockets of the namespace: the adapter skips the ids it does not find there
Live(cn) == { c \in DOMAIN cn : cn[c] = "connected" }

\* io.to(d): the sockets of room d
IoTo(cn, rm, d) == { c \in Live(cn) : d \in rm[c] }

\* socket.broadcast.to(d): the sockets of room d except the sender
BroadcastTo(cn, rm, c, d) == IoTo(cn, rm, d) \ {c}

\* socket.emit: the socket itself, when it is still connected
SocketEmit(cn, c) == {c} \cap Live(cn)

Emission(ev, to, who, roster, data) ==
    [ev |-> ev, to |-> to, who |-> who, roster |-> roster, data |-> data]

Step(op, c, d) == [op |-> op, conn |-> c, doc |-> d]

(* ------------------------------ registry ------------------------------- *)

Has(du, d) == d \in DOMAIN du

\* index of the entry keyed by socket id c, 0 when the Map has none
RECURSIVE IndexOf(_, _)
IndexOf(users, c) ==
    IF users = << >> THEN 0
    ELSE IF users[Len(users)].socketId = c THEN Len(users)
    ELSE IndexOf(SubSeq(users, 1, Len(users) - 1), c)

UsersHas(users, c) == IndexOf(users, c) # 0

UsersGet(users, c) == IF UsersHas(users, c) THEN users[IndexOf(users, c)] ELSE NullInfo

\* an array push in the place of Map.set
UsersSetAppend(users, c, info) == Append(users, info)

\* Map.set: an existing key keeps its position, a new key goes last
UsersSet(users, c, info) ==
    IF UsersHas(users, c)
    THEN [users EXCEPT ![IndexOf(users, c)] = info]
    ELSE Append(users, info)

\* the removal of an array that fills the hole with its last element
UsersDeleteSwap(users, c) ==
    IF ~UsersHas(users, c) THEN users
    ELSE IF IndexOf(users, c) = Len(users) THEN SubSeq(users, 1, Len(users) - 1)
    ELSE [SubSeq(users, 1, Len(users) - 1) EXCEPT ![IndexOf(users, c)] = users[Len(users)]]

\* Map.delete
UsersDelete(users, c) ==
    IF UsersHas(users, c)
    THEN SubSeq(users, 1, IndexOf(users, c) - 1)
         \o SubSeq(users, IndexOf(users, c) + 1, Len(users))
    ELSE users

\* documentUsers.set(d, users)
RegistrySet(du, d, users) ==
    [k \in DOMAIN du \cup {d} |-> IF k = d THEN users ELSE du[k]]

\* documentUsers.delete(d)
RegistryDelete(du, d) == [k \in DOMAIN du \ {d} |-> du[k]]

SocketIds(users) == { users[i].socketId : i \in DOMAIN users }

(* --------------------------- authentication ---------------------------- *)

\* jwt.verify: the id the token was signed for, NoUser when it throws
JwtVerify(token) ==
    IF token = "jwt:UA" THEN "UA"
    ELSE IF token = "jwt:UB" THEN "UB"
    ELSE IF token = "jwt:UC" THEN "UC"
    ELSE IF token = "jwt:UGhost" THEN "UGhost"
    ELSE NoUser

\* User.findById
FindUser(id) == IF id \in Users THEN id ELSE NoUser

\* the middleware without the User lookup
AuthenticateNoLookup(token) ==
    IF token = "absent" THEN NoUser ELSE JwtVerify(token)

\* the io.use middleware: the user attached to the socket, NoUser when
\* next() is called with an error
Authenticate(token) ==
    IF token = "absent" THEN NoUser
    ELSE IF JwtVerify(token) = NoUser THEN NoUser
    ELSE FindUser(JwtVerify(token))

(* ---------------------------- access check ----------------------------- *)

\* isOwner of the get-document handler
IsOwner(document, u) == document.owner # NoUser /\ document.owner = u

\* isCollaborator of the get-document handler
IsCollaborator(document, u) ==
    \E i \in DOMAIN document.collaborators : document.collaborators[i].user = u

\* the share-token test without the enabled flag
HasValidShareTokenAnyGrant(document, shareToken) ==
    shareToken # NoShareToken /\ document.shareLink.token = shareToken

\* hasValidShareToken of the get-document handler
HasValidShareToken(document, shareToken) ==
    /\ shareToken # NoShareToken
    /\ document.shareLink.enabled
    /\ document.shareLink.token = shareToken

\* the negation of the guard of the denial branch
HasAccess(document, u, shareToken) ==
    IsOwner(document, u) \/ IsCollaborator(document, u)
        \/ HasValidShareToken(document, shareToken)

\* a redemption branch that does not look at isOwner and isCollaborator
NeedsRedemptionAlways(document, u, shareToken) ==
    HasValidShareToken(document, shareToken)

\* the guard of the redemption branch
NeedsRedemption(document, u, shareToken) ==
    HasValidShareToken(document, shareToken)
        /\ ~IsOwner(document, u) /\ ~IsCollaborator(document, u)

\* a redemption that pushes the user without a permission, which the schema
\* defaults to viewer
RedeemedAsViewer(document, u) == [user |-> u, permission |-> "viewer"]

\* the entry the redemption branch pushes
RedeemedCollaborator(document, u) ==
    [user |-> u, permission |-> document.shareLink.permission]

\* document.save() after collaborators.push: a $push onto the stored array
SavePush(stored, entry) ==
    [stored EXCEPT !.collaborators = Append(@, entry)]

(* -------------------------------- Init --------------------------------- *)

\* D1 as createDocument and generateShareLink (and disableShareLink) leave it
OwnedDoc(owner, token, permission, enabled) ==
    [exists |-> TRUE, owner |-> owner, collaborators |-> << >>,
     shareLink |-> [token |-> token, permission |-> permission, enabled |-> enabled],
     data |-> "empty", title |-> DefaultTitle]

InitStores ==
    { [d \in Docs |-> IF d = "D1" THEN OwnedDoc("UA", "T1", "editor", TRUE)
                                   ELSE OwnedDoc("UB", NoShareToken, "viewer", FALSE)],
      [d \in Docs |-> IF d = "D1" THEN OwnedDoc("UA", "T1", "viewer", FALSE)
                                   ELSE AbsentDoc] }

Init ==
    /\ conn = [c \in Conns |-> "idle"]
    /\ handshake = [c \in Conns |-> "absent"]
    /\ user = [c \in Conns |-> NoUser]
    /\ currentDocumentId = [c \in Conns |-> NullDoc]
    /\ currentUserInfo = [c \in Conns |-> NullInfo]
    /\ rooms = [c \in Conns |-> {}]
    /\ documentUsers = << >>
    /\ store \in InitStores
    /\ tasks = EmptyBag
    /\ requests = 0
    /\ joined = {}
    /\ last = Step("init", NoConn, NullDoc)
    /\ out = << >>
    /\ saves = EmptyBag
    /\ saveRequests = 0
    /\ disabled = {}
    /\ lastTask = NoTask
    /\ lastSave = NoSave
    /\ issued = 1

(* --------------------------- io.use / connect -------------------------- *)

\* socket ids are fresh: the next socket of the namespace is the lowest
\* unused one. A socket the middleware rejects never enters the namespace.
NextSocket ==
    CHOOSE c \in DOMAIN conn : conn[c] = "idle" /\ \A b \in DOMAIN conn : b < c => conn[b] # "idle"

Connect(token) ==
    /\ \E c \in DOMAIN conn : conn[c] = "idle"
    /\ LET c == NextSocket
           found == Authenticate(token)
       IN IF found = NoUser
          THEN /\ last' = Step("rejected", NoConn, NullDoc)
               /\ UNCHANGED << conn, handshake, user >>
          ELSE /\ handshake' = [handshake EXCEPT ![c] = token]
               /\ user' = [user EXCEPT ![c] = found]
               /\ conn' = [conn EXCEPT ![c] = "connected"]
               /\ last' = Step("connection", c, NullDoc)
    /\ out' = << >>
    /\ UNCHANGED << currentDocumentId, currentUserInfo, rooms, documentUsers, store, tasks,
                    requests, joined >>

(* ------------------------ get-document handler ------------------------- *)

\* the handler instance t is over
Finish(t) == IF BagIn(t, tasks) THEN tasks (-) SetToBag({t}) ELSE tasks

\* the handler instance t is suspended again, as task u
Suspend(t, u) == (tasks (-) SetToBag({t})) (+) SetToBag({u})

\* a userInfo built from a user kept once for the module, the user of the
\* first socket
UserInfoShared(c, color) ==
    [socketId |-> c, userId |-> user[1], username |-> UserName(user[1]), color |-> color]

\* the userInfo object the handler builds
UserInfo(c, color) ==
    [socketId |-> c, userId |-> user[c], username |-> UserName(user[c]), color |-> color]

\* a roster read before the handler's users.set
JoinedUsersStale(du, d, info) == IF Has(du, d) THEN du[d] ELSE << >>

\* a join that makes a new Map for the room without the documentUsers.has test
JoinedUsersFresh(du, d, info) == << info >>

\* the roster after the handler's users.set, creating the room when absent
JoinedUsers(du, d, info) ==
    UsersSet(IF Has(du, d) THEN du[d] ELSE << >>, info.socketId, info)

\* a catch block reached after "currentDocumentId = documentId; socket.join"
FailedAfterRoomJoin(t, c, d) ==
    /\ tasks' = Finish(t)
    /\ last' = Step("failed", c, d)
    /\ out' = << Emission("error", SocketEmit(conn, c), NoPublic, << >>, "Failed to load document") >>
    /\ currentDocumentId' = [currentDocumentId EXCEPT ![c] = d]
    /\ rooms' = [rooms EXCEPT ![c] = @ \cup {d}]
    /\ UNCHANGED << conn, handshake, user, joined, currentUserInfo, documentUsers >>

\* a catch block that forgets the document the socket had joined
FailedResetting(t, c, d) ==
    /\ tasks' = Finish(t)
    /\ last' = Step("failed", c, d)
    /\ out' = << Emission("error", SocketEmit(conn, c), NoPublic, << >>, "Failed to load document") >>
    /\ currentDocumentId' = [currentDocumentId EXCEPT ![c] = NullDoc]
    /\ UNCHANGED << conn, handshake, user, joined, currentUserInfo, rooms, documentUsers >>

\* the catch block: socket.emit("error", "Failed to load document")
Failed(t, c, d) ==
    /\ tasks' = Finish(t)
    /\ last' = Step("failed", c, d)
    /\ out' = << Emission("error", SocketEmit(conn, c), NoPublic, << >>, "Failed to load document") >>
    /\ UNCHANGED << conn, handshake, user, joined, currentDocumentId, currentUserInfo, rooms, documentUsers >>

\* a denial that comes after the registry insert
DeniedAfterInsert(t, c, d) ==
    /\ tasks' = Finish(t)
    /\ last' = Step("denied", c, d)
    /\ out' = << Emission("error", SocketEmit(conn, c), NoPublic, << >>, "permission") >>
    /\ documentUsers' =
          RegistrySet(documentUsers, d,
                      UsersSet(IF Has(documentUsers, d) THEN documentUsers[d] ELSE << >>, c,
                               [socketId |-> c, userId |-> user[c],
                                username |-> UserName(user[c]), color |-> NoColor]))
    /\ UNCHANGED << conn, handshake, user, joined, currentDocumentId, currentUserInfo, rooms >>

\* a denial that emits the error to the room of the document
DeniedToRoom(t, c, d) ==
    /\ tasks' = Finish(t)
    /\ last' = Step("denied", c, d)
    /\ out' = << Emission("error", IoTo(conn, rooms, d) \cup SocketEmit(conn, c), NoPublic, << >>,
                          "permission") >>
    /\ UNCHANGED << conn, handshake, user, joined, currentDocumentId, currentUserInfo, rooms,
                    documentUsers >>

\* the denial branch: socket.emit("error", ...) and return
Denied(t, c, d) ==
    /\ tasks' = Finish(t)
    /\ last' = Step("denied", c, d)
    /\ out' = << Emission("error", SocketEmit(conn, c), NoPublic, << >>, "permission") >>
    /\ UNCHANGED << conn, handshake, user, joined, currentDocumentId, currentUserInfo, rooms, documentUsers >>

\* a registry insert that is not announced to the room
RegisterUnannounced(t, c, d, document) ==
    \E color \in Colors :
        LET info == UserInfo(c, color)
            users == JoinedUsers(documentUsers, d, info)
        IN /\ currentDocumentId' = [currentDocumentId EXCEPT ![c] = d]
           /\ rooms' = [rooms EXCEPT ![c] = @ \cup {d}]
           /\ documentUsers' = RegistrySet(documentUsers, d, users)
           /\ currentUserInfo' = [currentUserInfo EXCEPT ![c] = info]
           /\ tasks' = Finish(t)
           /\ last' = Step("joined", c, d)
           /\ out' = << Emission("load-document", SocketEmit(conn, c), NoPublic, << >>, document.data) >>
           /\ joined' = joined \cup {c}
           /\ UNCHANGED << conn, handshake, user >>

\* from "currentDocumentId = documentId" to the user-joined broadcast
Register(t, c, d, document) ==
    \E color \in Colors :
        LET info == UserInfo(c, color)
            users == JoinedUsers(documentUsers, d, info)
            joinedRooms == [rooms EXCEPT ![c] = @ \cup {d}]
        IN /\ currentDocumentId' = [currentDocumentId EXCEPT ![c] = d]
           /\ rooms' = joinedRooms
           /\ documentUsers' = RegistrySet(documentUsers, d, users)
           /\ currentUserInfo' = [currentUserInfo EXCEPT ![c] = info]
           /\ tasks' = Finish(t)
           /\ last' = Step("joined", c, d)
           /\ out' = << Emission("load-document", SocketEmit(conn, c), NoPublic, << >>, document.data),
                        Emission("user-joined", IoTo(conn, joinedRooms, d), PublicInfo(info),
                                 MapPublic(users), "none") >>
           /\ joined' = joined \cup {c}
           /\ UNCHANGED << conn, handshake, user >>

\* the handler from the access check on, run when the document has arrived
Decide(t, c, d, document) ==
    IF ~HasAccess(document, user[c], t.shareToken)
    THEN Denied(t, c, d)
    ELSE IF NeedsRedemption(document, user[c], t.shareToken)
    THEN /\ tasks' = Suspend(t, [t EXCEPT !.pc = "save", !.document = document])
         /\ last' = Step("redeeming", c, d)
         /\ out' = << >>
         /\ UNCHANGED << conn, handshake, user, joined, currentDocumentId, currentUserInfo, rooms, documentUsers >>
    ELSE Register(t, c, d, document)

\* the client sends get-document: the handler runs up to its first await.
\* A null document id makes findOrCreateDocument return undefined without a
\* store call, and reading document.owner throws into the catch block.
GetDocument(c, d, shareToken) ==
    /\ conn[c] = "connected"
    /\ requests < MaxRequests
    /\ requests' = requests + 1
    /\ IF d = NullDoc
       THEN Failed(NoTask, c, d) /\ UNCHANGED store
       ELSE /\ BagCardinality(tasks) < MaxTasks
            /\ tasks' = tasks (+) SetToBag({[conn |-> c, documentId |-> d,
                                             shareToken |-> shareToken,
                                             pc |-> "find", document |-> AbsentDoc]})
            /\ last' = Step("get-document", c, d)
            /\ out' = << >>
            /\ UNCHANGED << conn, handshake, user, joined, currentDocumentId, currentUserInfo,
                            rooms, documentUsers, store >>

\* Document.findById returns
JoinFind(t) ==
    /\ t.pc = "find"
    /\ LET c == t.conn
           d == t.documentId
       IN IF store[d].exists
          THEN Decide(t, c, d, store[d]) /\ UNCHANGED << store, requests >>
          ELSE /\ tasks' = Suspend(t, [t EXCEPT !.pc = "create"])
               /\ last' = Step("creating", c, d)
               /\ out' = << >>
               /\ UNCHANGED << conn, handshake, user, joined, currentDocumentId, currentUserInfo,
                               rooms, documentUsers, store, requests >>

\* Document.create returns: a duplicate key when the record exists by now
\* a handler that admits the requester of the document it has created
JoinCreateAdmitting(t) ==
    /\ t.pc = "create"
    /\ LET c == t.conn
           d == t.documentId
       IN IF store[d].exists
          THEN Failed(t, c, d) /\ UNCHANGED << store, requests >>
          ELSE /\ store' = [store EXCEPT ![d] = CreatedDoc]
               /\ Register(t, c, d, CreatedDoc)
               /\ UNCHANGED requests

JoinCreate(t) ==
    /\ t.pc = "create"
    /\ LET c == t.conn
           d == t.documentId
       IN IF store[d].exists
          THEN Failed(t, c, d) /\ UNCHANGED << store, requests >>
          ELSE /\ store' = [store EXCEPT ![d] = CreatedDoc]
               /\ Decide(t, c, d, CreatedDoc)
               /\ UNCHANGED requests

\* document.save() returns after the share-link redemption
JoinSave(t) ==
    /\ t.pc = "save"
    /\ LET c == t.conn
           d == t.documentId
       IN /\ store' = [store EXCEPT ![d] =
                          SavePush(@, RedeemedCollaborator(t.document, user[c]))]
          /\ Register(t, c, d, t.document)
          /\ UNCHANGED requests

\* the awaited store call rejects
JoinStoreError(t) ==
    /\ Failed(t, t.conn, t.documentId)
    /\ UNCHANGED << store, requests >>

\* the process ends on an unhandled rejection: every socket is closed with
\* no disconnect handler run, and the registry and the suspended handlers
\* are gone with the process
ProcessExit(c) ==
    /\ conn' = [b \in Conns |-> IF conn[b] = "connected" THEN "closed" ELSE conn[b]]
    /\ rooms' = [b \in Conns |-> {}]
    /\ currentDocumentId' = [b \in Conns |-> NullDoc]
    /\ currentUserInfo' = [b \in Conns |-> NullInfo]
    /\ documentUsers' = << >>
    /\ tasks' = EmptyBag
    /\ last' = Step("exit", c, NullDoc)
    /\ out' = << >>

\* the client sends get-document with no payload: binding { documentId,
\* shareToken } to undefined throws before the try block is entered, so the
\* promise of the async handler rejects and nobody handles it. The runtime
\* either only warns (Node 14) or ends the process (Node 15 and later).
GetDocumentNoPayload(c) ==
    /\ conn[c] = "connected"
    /\ requests < MaxRequests
    /\ requests' = requests + 1
    /\ \/ /\ last' = Step("unhandled-rejection", c, NullDoc)
          /\ out' = << >>
          /\ UNCHANGED << conn, rooms, currentDocumentId, currentUserInfo, documentUsers, tasks >>
       \/ ProcessExit(c)
    /\ UNCHANGED << handshake, user, joined, store >>

(* ---------------------------- relay handlers --------------------------- *)

\* cursor payloads: absent, index not a number, well formed, and well formed
\* with a userId field of its own
NotANumber == "not-a-number"
NoCursor == [present |-> FALSE, index |-> NotANumber, userId |-> NoUser]
CursorPayloads ==
    { NoCursor,
      [present |-> TRUE, index |-> NotANumber, userId |-> NoUser],
      [present |-> TRUE, index |-> "7", userId |-> NoUser],
      [present |-> TRUE, index |-> "7", userId |-> "UA"] }

\* a relay handler that returns early
Dropped(c) ==
    /\ last' = Step("dropped", c, currentDocumentId[c])
    /\ out' = << >>

\* a send-changes guard without the currentDocumentId test
DeltaOkNoJoinCheck(c, delta) == delta # NoPayload

\* the guard of send-changes
\* a send-changes guard that looks the sender's access up again
DeltaOkWithAccess(c, delta) ==
    /\ delta # NoPayload
    /\ currentDocumentId[c] # NullDoc
    /\ HasAccess(store[currentDocumentId[c]], user[c], NoShareToken)

DeltaOk(c, delta) == delta # NoPayload /\ currentDocumentId[c] # NullDoc

\* a relay through io.to instead of socket.broadcast.to
RelayTargetsAll(c) == IoTo(conn, rooms, currentDocumentId[c])

\* the targets of the three relays
RelayTargets(c) == BroadcastTo(conn, rooms, c, currentDocumentId[c])

\* a send-changes relay that sends the delta as a string
SendChangesStringified(c, delta) ==
    /\ conn[c] = "connected"
    /\ IF DeltaOk(c, delta)
       THEN /\ last' = Step("send-changes", c, currentDocumentId[c])
            /\ out' = << Emission("receive-changes", RelayTargets(c), NoPublic, << >>,
                                  "[object Object]") >>
       ELSE Dropped(c)
    /\ UNCHANGED << conn, handshake, user, joined, currentDocumentId, currentUserInfo, rooms,
                    documentUsers, store, tasks, requests >>

SendChanges(c, delta) ==
    /\ conn[c] = "connected"
    /\ IF DeltaOk(c, delta)
       THEN /\ last' = Step("send-changes", c, currentDocumentId[c])
            /\ out' = << Emission("receive-changes", RelayTargets(c), NoPublic, << >>, delta) >>
       ELSE Dropped(c)
    /\ UNCHANGED << conn, handshake, user, joined, currentDocumentId, currentUserInfo, rooms,
                    documentUsers, store, tasks, requests >>

\* a cursor-move guard without the typeof index test
CursorOkNoIndexCheck(c, cursorData) ==
    /\ cursorData.present
    /\ currentDocumentId[c] # NullDoc
    /\ currentUserInfo[c] # NullInfo

\* the guard of cursor-move
CursorOk(c, cursorData) ==
    /\ cursorData.present
    /\ cursorData.index # NotANumber
    /\ currentDocumentId[c] # NullDoc
    /\ currentUserInfo[c] # NullInfo

\* { userId, username, color, ...cursorData }: a field of the payload
\* overwrites the field of the same name written before it
CursorUpdate(info, cursorData) ==
    [userId |-> IF cursorData.userId # NoUser THEN cursorData.userId ELSE info.userId,
     username |-> info.username,
     color |-> info.color]

CursorMove(c, cursorData) ==
    /\ conn[c] = "connected"
    /\ IF CursorOk(c, cursorData)
       THEN /\ last' = Step("cursor-move", c, currentDocumentId[c])
            /\ out' = << Emission("cursor-update", RelayTargets(c),
                                  CursorUpdate(currentUserInfo[c], cursorData), << >>,
                                  cursorData.index) >>
       ELSE Dropped(c)
    /\ UNCHANGED << conn, handshake, user, joined, currentDocumentId, currentUserInfo, rooms,
                    documentUsers, store, tasks, requests >>

\* the guard of title-change
TitleOk(c, newTitle) ==
    newTitle # NoPayload /\ newTitle # NotAString /\ currentDocumentId[c] # NullDoc

TitleChange(c, newTitle) ==
    /\ conn[c] = "connected"
    /\ IF TitleOk(c, newTitle)
       THEN /\ last' = Step("title-change", c, currentDocumentId[c])
            /\ out' = << Emission("title-update", RelayTargets(c), NoPublic, << >>, newTitle) >>
       ELSE Dropped(c)
    /\ UNCHANGED << conn, handshake, user, joined, currentDocumentId, currentUserInfo, rooms,
                    documentUsers, store, tasks, requests >>

(* ------------------------ save-document handler ------------------------ *)

\* callback({ status, error })
Ack(c, status) == Emission("ack", SocketEmit(conn, c), NoPublic, << >>, status)

\* the acknowledgment, when the client passed a callback
Acked(s, status) == IF s.callback THEN << Ack(s.conn, status) >> ELSE << >>

\* the document-saved broadcast: io.to(currentDocumentId), the closure
\* variable being read when the handler resumes
SavedTargets(s) == IoTo(conn, rooms, currentDocumentId[s.conn])

\* the save-document request as the handler receives it
SaveRequest(c, callback) ==
    [conn |-> c, documentId |-> currentDocumentId[c], data |-> Payload(saveRequests + 1),
     callback |-> callback, pc |-> "update"]

\* the client sends save-document: the handler runs up to its await, or to
\* its return when no document is loaded
\* a save-document handler that refuses the save of a collaborator whose
\* permission is viewer
SaveDocumentEditorsOnly(c, callback) ==
    /\ conn[c] = "connected"
    /\ saveRequests < MaxSaves
    /\ saveRequests' = saveRequests + 1
    /\ LET s == SaveRequest(c, callback)
           readOnly ==
              /\ currentDocumentId[c] # NullDoc
              /\ \E i \in DOMAIN store[currentDocumentId[c]].collaborators :
                     /\ store[currentDocumentId[c]].collaborators[i].user = user[c]
                     /\ store[currentDocumentId[c]].collaborators[i].permission = "viewer"
       IN /\ lastSave' = s
          /\ IF currentDocumentId[c] = NullDoc \/ readOnly
             THEN /\ last' = Step("save-rejected", c, NullDoc)
                  /\ out' = Acked(s, "error: No document loaded")
                  /\ saves' = saves
             ELSE /\ last' = Step("save-document", c, s.documentId)
                  /\ out' = << >>
                  /\ saves' = saves (+) SetToBag({s})
    /\ lastTask' = NoTask
    /\ UNCHANGED << conn, handshake, user, currentDocumentId, currentUserInfo, rooms,
                    documentUsers, store, tasks, requests, joined, disabled, issued >>

SaveDocument(c, callback) ==
    /\ conn[c] = "connected"
    /\ saveRequests < MaxSaves
    /\ saveRequests' = saveRequests + 1
    /\ LET s == SaveRequest(c, callback)
       IN /\ lastSave' = s
          /\ IF currentDocumentId[c] = NullDoc
             THEN /\ last' = Step("save-rejected", c, NullDoc)
                  /\ out' = Acked(s, "error: No document loaded")
                  /\ saves' = saves
             ELSE /\ last' = Step("save-document", c, s.documentId)
                  /\ out' = << >>
                  /\ saves' = saves (+) SetToBag({s})
    /\ lastTask' = NoTask
    /\ UNCHANGED << conn, handshake, user, currentDocumentId, currentUserInfo, rooms,
                    documentUsers, store, tasks, requests, joined, disabled, issued >>

\* the store applies the update of findByIdAndUpdate(id, { data })
SaveWrite(s) ==
    /\ s.pc = "update"
    /\ store' = [store EXCEPT ![s.documentId].data =
                     IF store[s.documentId].exists THEN s.data ELSE @]
    /\ saves' = (saves (-) SetToBag({s})) (+) SetToBag({[s EXCEPT !.pc = "written"]})
    /\ last' = Step("store-write", s.conn, s.documentId)
    /\ out' = << >>
    /\ lastSave' = s
    /\ lastTask' = NoTask
    /\ UNCHANGED << conn, handshake, user, currentDocumentId, currentUserInfo, rooms,
                    documentUsers, tasks, requests, joined, disabled, saveRequests, issued >>

\* findByIdAndUpdate resolves: the broadcast, then the acknowledgment
SaveReturn(s) ==
    /\ s.pc = "written"
    /\ saves' = saves (-) SetToBag({s})
    /\ last' = Step("saved", s.conn, s.documentId)
    /\ out' = << Emission("document-saved", SavedTargets(s), NoPublic, << >>, "none") >>
                  \o Acked(s, "ok")
    /\ lastSave' = s
    /\ lastTask' = NoTask
    /\ UNCHANGED << conn, handshake, user, currentDocumentId, currentUserInfo, rooms,
                    documentUsers, store, tasks, requests, joined, disabled, saveRequests, issued >>

\* a catch block that only logs
SaveStoreErrorSilent(s) ==
    /\ s.pc = "update"
    /\ saves' = saves (-) SetToBag({s})
    /\ last' = Step("save-failed", s.conn, s.documentId)
    /\ out' = << >>
    /\ lastSave' = s
    /\ lastTask' = NoTask
    /\ UNCHANGED << conn, handshake, user, currentDocumentId, currentUserInfo, rooms,
                    documentUsers, store, tasks, requests, joined, disabled, saveRequests, issued >>

\* findByIdAndUpdate rejects: the catch block
SaveStoreError(s) ==
    /\ s.pc = "update"
    /\ saves' = saves (-) SetToBag({s})
    /\ last' = Step("save-failed", s.conn, s.documentId)
    /\ out' = Acked(s, "error: store")
    /\ lastSave' = s
    /\ lastTask' = NoTask
    /\ UNCHANGED << conn, handshake, user, currentDocumentId, currentUserInfo, rooms,
                    documentUsers, store, tasks, requests, joined, disabled, saveRequests, issued >>

(* --------------------------- disconnect handler ------------------------ *)

\* the guard of the disconnect handler
CleanupGuard(c) ==
    currentDocumentId[c] # NullDoc /\ Has(documentUsers, currentDocumentId[c])

\* a cleanup that keeps the Map of a room it has emptied
CleanupKeepRoom(du, d, c) == RegistrySet(du, d, UsersDelete(du[d], c))

\* the registry after the handler: the socket's entry deleted from the Map
\* of its current document, and the Map deleted when that leaves it empty
Cleanup(du, d, c) ==
    IF UsersDelete(du[d], c) = << >>
    THEN RegistryDelete(du, d)
    ELSE RegistrySet(du, d, UsersDelete(du[d], c))

\* a user-left event whose roster is read before the delete
UserLeftBeforeDelete(to, users, c) ==
    Emission("user-left", to,
             [userId |-> UsersGet(users, c).userId,
              username |-> UsersGet(users, c).username, color |-> NoColor],
             MapPublic(users), "none")

\* the user-left event: userId and username of the entry read before the
\* delete, and the roster after it
UserLeft(to, users, c) ==
    Emission("user-left", to,
             [userId |-> UsersGet(users, c).userId,
              username |-> UsersGet(users, c).username, color |-> NoColor],
             MapPublic(UsersDelete(users, c)), "none")

\* a handler that emits user-left without the users.has test
DisconnectHandlerNoHasCheck(c) ==
    IF CleanupGuard(c)
    THEN LET d == currentDocumentId[c]
         IN /\ documentUsers' = Cleanup(documentUsers, d, c)
            /\ out' = << UserLeft(IoTo(conn', rooms', d), documentUsers[d], c) >>
    ELSE /\ documentUsers' = documentUsers
         /\ out' = << >>

\* the body of the disconnect handler
DisconnectHandler(c) ==
    IF CleanupGuard(c)
    THEN LET d == currentDocumentId[c]
         IN /\ documentUsers' = Cleanup(documentUsers, d, c)
            /\ out' = IF UsersHas(documentUsers[d], c)
                      THEN << UserLeft(IoTo(conn', rooms', d), documentUsers[d], c) >>
                      ELSE << >>
    ELSE /\ documentUsers' = documentUsers
         /\ out' = << >>

\* the transport closes: socket.io takes the socket out of its rooms and of
\* the namespace, then runs the disconnect handler
Disconnect(c) ==
    /\ conn[c] = "connected"
    /\ conn' = [conn EXCEPT ![c] = "closed"]
    /\ rooms' = [rooms EXCEPT ![c] = {}]
    /\ last' = Step("disconnect", c, currentDocumentId[c])
    /\ DisconnectHandler(c)
    /\ UNCHANGED << handshake, user, joined, currentDocumentId, currentUserInfo, store, tasks,
                    requests >>

\* the disconnect handler run once more for a socket it has just run for
\* (socket.io itself emits "disconnect" once per socket)
DisconnectAgain(c) ==
    /\ conn[c] = "closed"
    /\ last.op \in {"disconnect", "disconnect-again"} /\ last.conn = c
    /\ UNCHANGED << conn, rooms >>
    /\ last' = Step("disconnect-again", c, currentDocumentId[c])
    /\ DisconnectHandler(c)
    /\ UNCHANGED << handshake, user, joined, currentDocumentId, currentUserInfo, store, tasks,
                    requests >>

(* ------------------------- share-link switch --------------------------- *)

\* a disableShareLink that also empties the collaborators
DisableShareLinkRevoking(u, d, saved) ==
    /\ store[d].exists /\ store[d].owner = u /\ saved
    /\ store' = [store EXCEPT ![d].shareLink.enabled = FALSE, ![d].collaborators = << >>]
    /\ disabled' = disabled \cup {d}
    /\ last' = Step("share-disabled", NoConn, d)
    /\ out' = << >>
    /\ lastTask' = NoTask
    /\ lastSave' = NoSave
    /\ UNCHANGED << conn, handshake, user, currentDocumentId, currentUserInfo, rooms,
                    documentUsers, tasks, requests, joined, saves, saveRequests, issued >>

\* DELETE /:id/share by the authenticated user u. The handler reads the
\* record's existence and owner, which no handler writes once they are set,
\* and its save is a $set of shareLink.enabled, so the request takes effect
\* at its save; saved is whether document.save() resolves. Reading
\* document.owner.toString() of a record without owner throws into the catch.
DisableShareLink(u, d, saved) ==
    /\ IF ~store[d].exists
       THEN last' = Step("share-not-found", NoConn, d) /\ UNCHANGED << store, disabled >>
       ELSE IF store[d].owner = NoUser
       THEN last' = Step("share-error", NoConn, d) /\ UNCHANGED << store, disabled >>
       ELSE IF store[d].owner # u
       THEN last' = Step("share-forbidden", NoConn, d) /\ UNCHANGED << store, disabled >>
       ELSE IF ~saved
       THEN last' = Step("share-error", NoConn, d) /\ UNCHANGED << store, disabled >>
       ELSE /\ store' = [store EXCEPT ![d].shareLink.enabled = FALSE]
            /\ disabled' = disabled \cup {d}
            /\ last' = Step("share-disabled", NoConn, d)
    /\ out' = << >>
    /\ lastTask' = NoTask
    /\ lastSave' = NoSave
    /\ UNCHANGED << conn, handshake, user, currentDocumentId, currentUserInfo, rooms,
                    documentUsers, tasks, requests, joined, saves, saveRequests, issued >>

\* res.status(status).json(body): a response goes to no socket
Response(status, body) ==
    [ev |-> "response", to |-> {}, who |-> NoPublic, roster |-> << >>, data |-> body,
     status |-> status]

\* a controller that answers without writing
Answered(op, d, status, body) ==
    /\ last' = Step(op, NoConn, d)
    /\ out' = << Response(status, body) >>
    /\ UNCHANGED << store, disabled, issued >>

\* a validation that lets every permission through
ValidPermissionAny(permission) == TRUE

\* ['viewer', 'editor'].includes(permission)
ValidPermission(permission) == permission \in Permissions

\* a generateShareLink that keeps the token of the grant it replaces
GenerateShareLinkKeepToken(u, d, permission, saved) ==
    /\ store[d].exists /\ store[d].owner = u /\ permission \in Permissions /\ saved
    /\ issued < MaxTokens
    /\ issued' = issued + 1
    /\ store' = [store EXCEPT ![d].shareLink.permission = permission,
                              ![d].shareLink.enabled = TRUE]
    /\ disabled' = disabled \ {d}
    /\ last' = Step("share-generated", NoConn, d)
    /\ out' = << Response(200, [token |-> store[d].shareLink.token, permission |-> permission,
                                enabled |-> TRUE]) >>
    /\ lastTask' = NoTask
    /\ lastSave' = NoSave
    /\ UNCHANGED << conn, handshake, user, currentDocumentId, currentUserInfo, rooms,
                    documentUsers, tasks, requests, joined, saves, saveRequests >>

\* POST /:id/share by the authenticated user u with req.body.permission.
\* The token is generated before document.save() is awaited, so a save that
\* rejects has used one up; the save is a $set of the whole shareLink.
GenerateShareLink(u, d, permission, saved) ==
    /\ IF ~store[d].exists
       THEN Answered("share-not-found", d, 404, "Document not found")
       ELSE IF store[d].owner = NoUser
       THEN Answered("share-error", d, 500, "Failed to generate share link")
       ELSE IF store[d].owner # u
       THEN Answered("share-forbidden", d, 403, "Only the owner can generate share links")
       ELSE IF ~ValidPermission(permission)
       THEN Answered("share-invalid", d, 400, "Invalid permission type")
       ELSE /\ issued < MaxTokens
            /\ issued' = issued + 1
            /\ IF ~saved
               THEN /\ last' = Step("share-error", NoConn, d)
                    /\ out' = << Response(500, "Failed to generate share link") >>
                    /\ UNCHANGED << store, disabled >>
               ELSE /\ store' = [store EXCEPT ![d].shareLink =
                                     [token |-> IssuedToken(issued + 1),
                                      permission |-> permission, enabled |-> TRUE]]
                    /\ disabled' = disabled \ {d}
                    /\ last' = Step("share-generated", NoConn, d)
                    /\ out' = << Response(200, [token |-> IssuedToken(issued + 1),
                                                permission |-> permission,
                                                enabled |-> TRUE]) >>
    /\ lastTask' = NoTask
    /\ lastSave' = NoSave
    /\ UNCHANGED << conn, handshake, user, currentDocumentId, currentUserInfo, rooms,
                    documentUsers, tasks, requests, joined, saves, saveRequests >>

(* -------------------------- document router --------------------------- *)

\* what a request of the document router leaves alone: the session layer
HttpFrame ==
    /\ lastTask' = NoTask
    /\ lastSave' = NoSave
    /\ UNCHANGED << conn, handshake, user, currentDocumentId, currentUserInfo, rooms,
                    documentUsers, tasks, requests, joined, saves, saveRequests >>

\* createDocument: new Document({ _id, title: title || default, owner:
\* req.user.id, collaborators: [] }).save(), a duplicate key when the id has
\* a record
CreateDocument(u, d, title, saved) ==
    /\ IF store[d].exists \/ ~saved
       THEN Answered("create-error", d, 500, "Failed to create document")
       ELSE /\ store' = [store EXCEPT ![d] =
                             [OwnedDoc(u, NoShareToken, "viewer", FALSE) EXCEPT
                                 !.title = IF title = NoPayload THEN DefaultTitle ELSE title]]
            /\ last' = Step("created", NoConn, d)
            /\ out' = << Response(201, d) >>
            /\ UNCHANGED << disabled, issued >>
    /\ HttpFrame

\* getUserDocuments: a find
GetUserDocuments(u) ==
    /\ Answered("listed", NullDoc, 200, "documents")
    /\ HttpFrame

\* getDocument of the controller: reading document.owner._id of a record
\* without owner throws into the catch
GetDocumentById(u, d) ==
    /\ IF ~store[d].exists
       THEN Answered("get-not-found", d, 404, "Document not found")
       ELSE IF store[d].owner = NoUser
       THEN Answered("get-error", d, 500, "Failed to fetch document")
       ELSE IF ~IsOwner(store[d], u) /\ ~IsCollaborator(store[d], u)
       THEN Answered("get-forbidden", d, 403, "Access denied")
       ELSE Answered("got", d, 200, d)
    /\ HttpFrame

\* deleteDocument
DeleteDocument(u, d, saved) ==
    /\ IF ~store[d].exists
       THEN Answered("delete-not-found", d, 404, "Document not found")
       ELSE IF store[d].owner = NoUser \/ (store[d].owner = u /\ ~saved)
       THEN Answered("delete-error", d, 500, "Failed to delete document")
       ELSE IF store[d].owner # u
       THEN Answered("delete-forbidden", d, 403, "Only the owner can delete this document")
       ELSE /\ store' = [store EXCEPT ![d] = AbsentDoc]
            /\ last' = Step("deleted", NoConn, d)
            /\ out' = << Response(200, "Document deleted successfully") >>
            /\ UNCHANGED << disabled, issued >>
    /\ HttpFrame

\* hasEditorPermission of updateDocumentTitle
HasEditorPermission(document, u) ==
    \E i \in DOMAIN document.collaborators :
        /\ document.collaborators[i].user = u
        /\ document.collaborators[i].permission = "editor"

\* updateDocumentTitle behind updateDocumentTitleValidation, which answers
\* 400 for a title of no character
UpdateDocumentTitle(u, d, title, saved) ==
    /\ IF title = NoPayload
       THEN Answered("title-invalid", d, 400, "Validation failed")
       ELSE IF ~store[d].exists
       THEN Answered("title-not-found", d, 404, "Document not found")
       ELSE IF store[d].owner = NoUser
       THEN Answered("title-error", d, 500, "Failed to update document")
       ELSE IF ~IsOwner(store[d], u) /\ ~HasEditorPermission(store[d], u)
       THEN Answered("title-forbidden", d, 403, "Access denied")
       ELSE IF ~saved
       THEN Answered("title-error", d, 500, "Failed to update document")
       ELSE /\ store' = [store EXCEPT ![d].title = title]
            /\ last' = Step("title-updated", NoConn, d)
            /\ out' = << Response(200, d) >>
            /\ UNCHANGED << disabled, issued >>
    /\ HttpFrame

\* accessSharedDocument: the public read through the share link
AccessSharedDocument(d, token) ==
    /\ IF ~store[d].exists
       THEN Answered("shared-not-found", d, 404, "Document not found")
       ELSE IF ~store[d].shareLink.enabled \/ store[d].shareLink.token # token
       THEN Answered("shared-forbidden", d, 403, "Invalid or expired share link")
       ELSE Answered("shared", d, 200, store[d].shareLink.permission)
    /\ HttpFrame

\* addCollaborator: the push of { user: userId, permission: permission ||
\* 'viewer' }; a permission outside the schema's enum fails the save
AddCollaborator(u, d, userId, permission, saved) ==
    /\ IF ~store[d].exists
       THEN Answered("add-not-found", d, 404, "Document not found")
       ELSE IF store[d].owner = NoUser
       THEN Answered("add-error", d, 500, "Failed to add collaborator")
       ELSE IF store[d].owner # u
       THEN Answered("add-forbidden", d, 403, "Only the owner can add collaborators")
       ELSE IF IsCollaborator(store[d], userId)
       THEN Answered("add-existing", d, 400, "User is already a collaborator")
       ELSE IF ~saved \/ permission \notin Permissions \cup {NoPermission}
       THEN Answered("add-error", d, 500, "Failed to add collaborator")
       ELSE /\ store' = [store EXCEPT ![d] =
                             SavePush(@, [user |-> userId,
                                          permission |-> IF permission = NoPermission
                                                         THEN "viewer" ELSE permission])]
            /\ last' = Step("added", NoConn, d)
            /\ out' = << Response(200, d) >>
            /\ UNCHANGED << disabled, issued >>
    /\ HttpFrame

\* removeCollaborator: collaborators.filter and save
RemoveCollaborator(u, d, userId, saved) ==
    /\ IF ~store[d].exists
       THEN Answered("remove-not-found", d, 404, "Document not found")
       ELSE IF store[d].owner = NoUser \/ (store[d].owner = u /\ ~saved)
       THEN Answered("remove-error", d, 500, "Failed to remove collaborator")
       ELSE IF store[d].owner # u
       THEN Answered("remove-forbidden", d, 403, "Only the owner can remove collaborators")
       ELSE /\ store' = [store EXCEPT ![d].collaborators =
                             SelectSeq(@, LAMBDA collab : collab.user # userId)]
            /\ last' = Step("removed", NoConn, d)
            /\ out' = << Response(200, "Collaborator removed successfully") >>
            /\ UNCHANGED << disabled, issued >>
    /\ HttpFrame

\* the tokens an HTTP request can carry in its Authorization header
HttpTokens == {"absent", "invalid", "jwt:UA", "jwt:UB"}

\* verifyToken: req.user.id, NoUser when the middleware ends the request
VerifyToken(token) == IF token = "absent" THEN NoUser ELSE JwtVerify(token)

\* the answer of verifyToken to a request without a valid token
Unauthorized(d) ==
    /\ Answered("unauthorized", d, 401, "message")
    /\ HttpFrame

\* a router without router.use(verifyToken): every request goes on to its
\* route
PassesAll(token) == TRUE

\* router.use(verifyToken) in front of the routes declared after it: a
\* request goes on to its route when verifyToken calls next()
Passes(token) == VerifyToken(token) # NoUser

\* the routes of the document router, in the order of their declaration
RouteShared(d, shareToken) == AccessSharedDocument(d, shareToken)

RouteCreate(token, d, title, saved) ==
    IF Passes(token)
    THEN CreateDocument(VerifyToken(token), d, title, saved)
    ELSE Unauthorized(d)

RouteList(token) ==
    IF Passes(token) THEN GetUserDocuments(VerifyToken(token)) ELSE Unauthorized(NullDoc)

RouteGet(token, d) ==
    IF Passes(token) THEN GetDocumentById(VerifyToken(token), d) ELSE Unauthorized(d)

RouteTitle(token, d, title, saved) ==
    IF Passes(token)
    THEN UpdateDocumentTitle(VerifyToken(token), d, title, saved)
    ELSE Unauthorized(d)

RouteDelete(token, d, saved) ==
    IF Passes(token) THEN DeleteDocument(VerifyToken(token), d, saved) ELSE Unauthorized(d)

RouteShare(token, d, permission, saved) ==
    IF Passes(token)
    THEN GenerateShareLink(VerifyToken(token), d, permission, saved)
    ELSE Unauthorized(d)

RouteUnshare(token, d, saved) ==
    IF Passes(token) THEN DisableShareLink(VerifyToken(token), d, saved) ELSE Unauthorized(d)

RouteAddCollaborator(token, d, userId, permission, saved) ==
    IF Passes(token)
    THEN AddCollaborator(VerifyToken(token), d, userId, permission, saved)
    ELSE Unauthorized(d)

RouteRemoveCollaborator(token, d, userId, saved) ==
    IF Passes(token)
    THEN RemoveCollaborator(VerifyToken(token), d, userId, saved)
    ELSE Unauthorized(d)

(* -------------------------------- Next --------------------------------- *)

\* the get-document request as the handler receives it
Request(c, d, shareToken) ==
    [conn |-> c, documentId |-> d, shareToken |-> shareToken, pc |-> "find",
     document |-> AbsentDoc]

\* a step of the get-document handler instance t
OfJoin(t) ==
    /\ lastTask' = t
    /\ lastSave' = NoSave
    /\ UNCHANGED << saves, saveRequests, disabled, issued >>

\* a step of the save-document handler instance s
OfSave(s) ==
    /\ lastSave' = s
    /\ lastTask' = NoTask
    /\ UNCHANGED << tasks, requests, joined, disabled, issued >>

\* a step of a handler that never suspends
OfNone ==
    /\ lastTask' = NoTask
    /\ lastSave' = NoSave
    /\ UNCHANGED << saves, saveRequests, disabled, issued >>

Next ==
    \/ \E token \in HandshakeTokens : Connect(token) /\ OfNone
    \/ \E c \in Conns, d \in Docs \cup {NullDoc}, k \in ShareTokens \cup {NoShareToken} :
          GetDocument(c, d, k) /\ OfJoin(Request(c, d, k))
    \/ \E t \in BagToSet(tasks) : JoinFind(t) /\ OfJoin(t)
    \/ \E t \in BagToSet(tasks) : JoinCreate(t) /\ OfJoin(t)
    \/ \E t \in BagToSet(tasks) : JoinSave(t) /\ OfJoin(t)
    \/ \E t \in BagToSet(tasks) : JoinStoreError(t) /\ OfJoin(t)
    \/ \E c \in Conns, delta \in Deltas \cup {NoPayload} : SendChanges(c, delta) /\ OfNone
    \/ \E c \in Conns, cursorData \in CursorPayloads : CursorMove(c, cursorData) /\ OfNone
    \/ \E c \in Conns, newTitle \in Titles \cup {NoPayload, NotAString} :
          TitleChange(c, newTitle) /\ OfNone
    \/ \E c \in Conns : Disconnect(c) /\ OfNone

Spec == Init /\ [][Next]_vars

\* the session layer with the disconnect handler run twice
NextRerun ==
    \/ \E token \in HandshakeTokens : Connect(token) /\ OfNone
    \/ \E c \in Conns, d \in Docs \cup {NullDoc}, k \in ShareTokens \cup {NoShareToken} :
          GetDocument(c, d, k) /\ OfJoin(Request(c, d, k))
    \/ \E t \in BagToSet(tasks) : JoinFind(t) /\ OfJoin(t)
    \/ \E t \in BagToSet(tasks) : JoinCreate(t) /\ OfJoin(t)
    \/ \E t \in BagToSet(tasks) : JoinSave(t) /\ OfJoin(t)
    \/ \E t \in BagToSet(tasks) : JoinStoreError(t) /\ OfJoin(t)
    \/ \E c \in Conns : Disconnect(c) /\ OfNone
    \/ \E c \in Conns : DisconnectAgain(c) /\ OfNone

SpecRerun == Init /\ [][NextRerun]_vars

\* the join handler on a store that answers every call: no rejected store
\* call, no null document id
NextCreate ==
    \/ \E token \in HandshakeTokens : Connect(token) /\ OfNone
    \/ \E c \in Conns, d \in Docs, k \in ShareTokens \cup {NoShareToken} :
          GetDocument(c, d, k) /\ OfJoin(Request(c, d, k))
    \/ \E t \in BagToSet(tasks) : JoinFind(t) /\ OfJoin(t)
    \/ \E t \in BagToSet(tasks) : JoinCreate(t) /\ OfJoin(t)
    \/ \E t \in BagToSet(tasks) : JoinSave(t) /\ OfJoin(t)
    \/ \E c \in Conns : Disconnect(c) /\ OfNone

SpecCreate == Init /\ [][NextCreate]_vars

\* the join handler with clients that also send get-document without a
\* payload; a process that has ended accepts no connection
NextPayload ==
    \/ \E token \in HandshakeTokens : last.op # "exit" /\ Connect(token) /\ OfNone
    \/ \E c \in Conns, d \in Docs \cup {NullDoc}, k \in ShareTokens \cup {NoShareToken} :
          GetDocument(c, d, k) /\ OfJoin(Request(c, d, k))
    \/ \E c \in Conns : GetDocumentNoPayload(c) /\ OfNone
    \/ \E t \in BagToSet(tasks) : JoinFind(t) /\ OfJoin(t)
    \/ \E t \in BagToSet(tasks) : JoinCreate(t) /\ OfJoin(t)
    \/ \E t \in BagToSet(tasks) : JoinSave(t) /\ OfJoin(t)
    \/ \E t \in BagToSet(tasks) : JoinStoreError(t) /\ OfJoin(t)
    \/ \E c \in Conns : Disconnect(c) /\ OfNone

SpecPayload == Init /\ [][NextPayload]_vars

\* a store call of a suspended get-document handler returns or fails
StoreAnswers ==
    \E t \in BagToSet(tasks) :
        (JoinFind(t) \/ JoinCreate(t) \/ JoinSave(t) \/ JoinStoreError(t)) /\ OfJoin(t)

\* the same handlers with every store call answered in the end
SpecPayloadFair == SpecPayload /\ WF_vars(StoreAnswers)

\* the join handler next to the save-document handler, on a store where
\* both documents exist
InitSave == Init /\ \A d \in Docs : store[d].exists

\* the owner of D1 opens the first socket, the owner of D2 the others
SaveToken(c) == IF c = 1 THEN "jwt:UA" ELSE "jwt:UB"

\* the joins of the save runs: D1 through its share link, D2 without a token
SaveJoins == { << "D1", "T1" >>, << "D2", NoShareToken >> }

NextSave ==
    \/ \E c \in Conns :
          /\ conn[c] = "idle" /\ c = NextSocket
          /\ Connect(SaveToken(c)) /\ OfNone
    \/ \E c \in Conns, j \in SaveJoins :
          GetDocument(c, j[1], j[2]) /\ OfJoin(Request(c, j[1], j[2]))
    \/ \E t \in BagToSet(tasks) : JoinFind(t) /\ OfJoin(t)
    \/ \E t \in BagToSet(tasks) : JoinSave(t) /\ OfJoin(t)
    \/ \E t \in BagToSet(tasks) : JoinStoreError(t) /\ OfJoin(t)
    \/ \E c \in Conns : Disconnect(c) /\ OfNone
    \/ \E c \in Conns, callback \in BOOLEAN : SaveDocument(c, callback)
    \/ \E s \in BagToSet(saves) : SaveWrite(s)
    \/ \E s \in BagToSet(saves) : SaveReturn(s)
    \/ \E s \in BagToSet(saves) : SaveStoreError(s)

SpecSave == InitSave /\ [][NextSave]_vars

\* the join handler next to the share-link switch: users connect and join
\* the shared document D1, which exists and whose share link starts enabled
InitShare == Init /\ store["D1"].shareLink.enabled

NextShare ==
    \/ \E token \in SignedTokens : Connect(token) /\ OfNone
    \/ \E c \in Conns, k \in ShareTokens \cup {NoShareToken} :
          GetDocument(c, "D1", k) /\ OfJoin(Request(c, "D1", k))
    \/ \E t \in BagToSet(tasks) : JoinFind(t) /\ OfJoin(t)
    \/ \E t \in BagToSet(tasks) : JoinSave(t) /\ OfJoin(t)
    \/ \E t \in BagToSet(tasks) : JoinStoreError(t) /\ OfJoin(t)
    \/ \E c \in Conns : Disconnect(c) /\ OfNone
    \/ \E u \in Users, saved \in BOOLEAN : DisableShareLink(u, "D1", saved)

SpecShare == InitShare /\ [][NextShare]_vars

\* the share tokens generated up to the bound
IssuedTokens == { IssuedToken(k) : k \in 1..MaxTokens }

\* the join handler next to the share-link requests of D1: the owner of D1
\* opens the first socket, another user the others, and joins present any
\* token the document ever had or none
NextGrant ==
    \/ \E c \in Conns : conn[c] = "idle" /\ c = NextSocket /\ Connect(SaveToken(c)) /\ OfNone
    \/ \E c \in Conns, k \in IssuedTokens \cup {NoShareToken} :
          GetDocument(c, "D1", k) /\ OfJoin(Request(c, "D1", k))
    \/ \E t \in BagToSet(tasks) : JoinFind(t) /\ OfJoin(t)
    \/ \E t \in BagToSet(tasks) : JoinSave(t) /\ OfJoin(t)
    \/ \E c \in Conns : Disconnect(c) /\ OfNone
    \/ \E u \in {"UA", "UB"}, permission \in Permissions \cup OtherPermissions, saved \in BOOLEAN :
          GenerateShareLink(u, "D1", permission, saved)
    \/ \E saved \in BOOLEAN : DisableShareLink("UA", "D1", saved)

SpecGrant == Init /\ [][NextGrant]_vars

\* the requests to the routes declared after router.use(verifyToken): D2 is
\* created and deleted, D1 is shared, retitled and given the collaborator UB
ProtectedRoutes(token) ==
    \/ \E title \in Titles \cup {NoPayload}, saved \in BOOLEAN :
          RouteCreate(token, "D2", title, saved)
    \/ RouteList(token)
    \/ \E d \in Docs : RouteGet(token, d)
    \/ \E title \in Titles \cup {NoPayload}, saved \in BOOLEAN :
          RouteTitle(token, "D1", title, saved)
    \/ \E d \in Docs, saved \in BOOLEAN : RouteDelete(token, d, saved)
    \/ \E permission \in {"editor", "admin"}, saved \in BOOLEAN :
          RouteShare(token, "D1", permission, saved)
    \/ \E saved \in BOOLEAN : RouteUnshare(token, "D1", saved)
    \/ \E permission \in {"editor", "admin", NoPermission}, saved \in BOOLEAN :
          RouteAddCollaborator(token, "D1", "UB", permission, saved)
    \/ \E saved \in BOOLEAN : RouteRemoveCollaborator(token, "D1", "UB", saved)

\* the document router alone, its requests in any order
NextHttp ==
    \/ \E k \in {IssuedToken(1), NoShareToken} : RouteShared("D1", k)
    \/ \E token \in HttpTokens : ProtectedRoutes(token)

SpecHttp == Init /\ [][NextHttp]_vars

\* three sockets of three users and one room: UA owns D1, UB and UC come in
\* with its share token
RosterConns == 1..NumRosterConns

RosterToken(c) == IF c = 1 THEN "jwt:UA" ELSE IF c = 2 THEN "jwt:UB" ELSE "jwt:UC"

InitRoster ==
    /\ conn = [c \in RosterConns |-> "idle"]
    /\ handshake = [c \in RosterConns |-> "absent"]
    /\ user = [c \in RosterConns |-> NoUser]
    /\ currentDocumentId = [c \in RosterConns |-> NullDoc]
    /\ currentUserInfo = [c \in RosterConns |-> NullInfo]
    /\ rooms = [c \in RosterConns |-> {}]
    /\ documentUsers = << >>
    /\ store = [d \in Docs |-> IF d = "D1" THEN OwnedDoc("UA", "T1", "editor", TRUE)
                                            ELSE OwnedDoc("UB", NoShareToken, "viewer", FALSE)]
    /\ tasks = EmptyBag
    /\ requests = 0
    /\ joined = {}
    /\ last = Step("init", NoConn, NullDoc)
    /\ out = << >>
    /\ saves = EmptyBag
    /\ saveRequests = 0
    /\ disabled = {}
    /\ lastTask = NoTask
    /\ lastSave = NoSave
    /\ issued = 1

NextRoster ==
    \/ \E c \in RosterConns :
          conn[c] = "idle" /\ c = NextSocket /\ Connect(RosterToken(c)) /\ OfNone
    \/ \E c \in RosterConns : GetDocument(c, "D1", "T1") /\ OfJoin(Request(c, "D1", "T1"))
    \/ \E t \in BagToSet(tasks) : JoinFind(t) /\ OfJoin(t)
    \/ \E t \in BagToSet(tasks) : JoinSave(t) /\ OfJoin(t)
    \/ \E c \in RosterConns : Disconnect(c) /\ OfNone

SpecRoster == InitRoster /\ [][NextRoster]_vars

\* get-document payloads that carry, next to documentId and shareToken, the
\* identity the client would like to be taken for
JoinPayloads ==
    [documentId : {"D1"}, shareToken : {"T1", NoShareToken},
     userId : {NoPayload, "UA", "UC"}, username : {NoPayload, "alice"}]

\* the parameter binding of the get-document handler:
\* async ({ documentId, shareToken }) => ...
GetDocumentPayload(c, payload) == GetDocument(c, payload.documentId, payload.shareToken)

NextIdentity ==
    \/ \E token \in HandshakeTokens : Connect(token) /\ OfNone
    \/ \E c \in Conns, payload \in JoinPayloads :
          /\ GetDocumentPayload(c, payload)
          /\ OfJoin(Request(c, payload.documentId, payload.shareToken))
    \/ \E t \in BagToSet(tasks) : JoinFind(t) /\ OfJoin(t)
    \/ \E t \in BagToSet(tasks) : JoinSave(t) /\ OfJoin(t)
    \/ \E c \in Conns : Disconnect(c) /\ OfNone

SpecIdentity == Init /\ [][NextIdentity]_vars

\* a cursor payload as the editor sends it
PlainCursor == [present |-> TRUE, index |-> "7", userId |-> NoUser]

\* the owner of D1 and a user who comes in through its share link work on
\* D1 while the owner removes collaborators and disables the link
NextRevoke ==
    \/ \E c \in Conns :
          conn[c] = "idle" /\ c = NextSocket /\ Connect(SaveToken(c)) /\ OfNone
    \/ \E c \in Conns : GetDocument(c, "D1", "T1") /\ OfJoin(Request(c, "D1", "T1"))
    \/ \E t \in BagToSet(tasks) : JoinFind(t) /\ OfJoin(t)
    \/ \E t \in BagToSet(tasks) : JoinSave(t) /\ OfJoin(t)
    \/ \E c \in Conns, delta \in Deltas : SendChanges(c, delta) /\ OfNone
    \/ \E c \in Conns : CursorMove(c, PlainCursor) /\ OfNone
    \/ \E c \in Conns, newTitle \in Titles : TitleChange(c, newTitle) /\ OfNone
    \/ \E c \in Conns : SaveDocument(c, TRUE)
    \/ \E s \in BagToSet(saves) : SaveWrite(s)
    \/ \E s \in BagToSet(saves) : SaveReturn(s)
    \/ \E saved \in BOOLEAN : RemoveCollaborator("UA", "D1", "UB", saved)
    \/ \E saved \in BOOLEAN : DisableShareLink("UA", "D1", saved)
    \/ \E c \in Conns : Disconnect(c) /\ OfNone

SpecRevoke == InitShare /\ [][NextRevoke]_vars

\* the owner of D1 issues share links of either permission; the users who
\* come in through them edit and save
NextViewer ==
    \/ \E c \in Conns :
          conn[c] = "idle" /\ c = NextSocket /\ Connect(SaveToken(c)) /\ OfNone
    \/ \E permission \in Permissions : GenerateShareLink("UA", "D1", permission, TRUE)
    \/ \E c \in Conns, k \in IssuedTokens :
          GetDocument(c, "D1", k) /\ OfJoin(Request(c, "D1", k))
    \/ \E t \in BagToSet(tasks) : JoinFind(t) /\ OfJoin(t)
    \/ \E t \in BagToSet(tasks) : JoinSave(t) /\ OfJoin(t)
    \/ \E c \in Conns, delta \in Deltas : SendChanges(c, delta) /\ OfNone
    \/ \E c \in Conns : SaveDocument(c, TRUE)
    \/ \E s \in BagToSet(saves) : SaveWrite(s)
    \/ \E s \in BagToSet(saves) : SaveReturn(s)
    \/ \E c \in Conns : Disconnect(c) /\ OfNone

SpecViewer == InitShare /\ [][NextViewer]_vars

(* ------------------------------- claims -------------------------------- *)

\* the roster of document d, empty when the registry has no room for it
RosterOf(du, d) == IF Has(du, d) THEN du[d] ELSE << >>

\* the connected sockets with an entry in the roster of d
LiveMembers(d) ==
    { c \in Conns : conn[c] = "connected" /\ c \in SocketIds(RosterOf(documentUsers, d)) }

\* the documents whose roster has an entry of socket c
RostersOf(du, c) == { d \in DOMAIN du : c \in SocketIds(du[d]) }

RelayOps == {"send-changes", "cursor-move", "title-change"}

\* a handshake whose token is signed for a user that exists
PassedAuthentication(c) == handshake[c] \in SignedTokens

AuthenticatedOnly ==
    /\ \A c \in Conns : conn[c] # "idle" => PassedAuthentication(c) /\ user[c] \in Users
    /\ \A t \in BagToSet(tasks) : t.conn \in Conns /\ conn[t.conn] # "idle"
    /\ \A d \in DOMAIN documentUsers : \A i \in DOMAIN documentUsers[d] :
          LET e == documentUsers[d][i]
          IN /\ e.socketId \in Conns
             /\ conn[e.socketId] # "idle"
             /\ PassedAuthentication(e.socketId)
             /\ e.userId \in Users

\* C1: a handshake with no token, an invalid token or a token of a user that
\* does not exist is rejected with no effect on sockets, rooms, handlers or
\* rosters, and every roster entry (and every socket and handler) belongs to
\* a connection whose handshake passed authentication.
C1_RejectedBeforeHandler ==
    [][ /\ AuthenticatedOnly'
        /\ last'.op = "rejected" =>
              UNCHANGED << conn, handshake, user, rooms, currentDocumentId, documentUsers, tasks >>
      ]_vars

C1_Witness == last.op = "rejected" /\ documentUsers # << >>

\* the access rule of the claim, on a document record
Admissible(document, u, shareToken) ==
    \/ document.owner = u
    \/ \E i \in DOMAIN document.collaborators : document.collaborators[i].user = u
    \/ /\ shareToken # NoShareToken
       /\ shareToken = document.shareLink.token
       /\ document.shareLink.enabled

\* a handler of socket c for document d runs its access check in this step,
\* on the record the store holds for d, with outcome ok
AccessChecked(c, d, ok) ==
    \E t \in BagToSet(tasks) :
        /\ t.conn = c /\ t.documentId = d /\ t.pc \in {"find", "create"}
        /\ CopiesIn(t, tasks') < CopiesIn(t, tasks)
        /\ Admissible(store'[d], user[c], t.shareToken) <=> ok

\* C2: the access check of get-document passes exactly when the user is the
\* owner, a collaborator, or presents the token of the enabled share grant;
\* a join that fails the check is denied and leaves the rosters alone, and a
\* socket enters a roster only in the step of a handler that passed it.
C2_AdmitsExactlyWhenAuthorized ==
    [][ /\ last'.op = "denied" =>
              AccessChecked(last'.conn, last'.doc, FALSE) /\ documentUsers' = documentUsers
        /\ last'.op = "redeeming" => AccessChecked(last'.conn, last'.doc, TRUE)
        /\ last'.op = "joined" =>
              \E t \in BagToSet(tasks) :
                 /\ t.conn = last'.conn /\ t.documentId = last'.doc
                 /\ CopiesIn(t, tasks') < CopiesIn(t, tasks)
                 /\ Admissible(store'[last'.doc], user[last'.conn], t.shareToken)
        /\ \A d \in Docs, c \in Conns :
              (c \in SocketIds(RosterOf(documentUsers', d))
                   /\ c \notin SocketIds(RosterOf(documentUsers, d)))
              => last'.op = "joined" /\ last'.conn = c /\ last'.doc = d
      ]_vars

C2_Witness ==
    /\ last.op = "denied" /\ last.doc = "D1" /\ user[last.conn] = "UB"
    /\ store["D1"].shareLink.enabled
    /\ RosterOf(documentUsers, "D1") # << >>

\* C3: a denied join emits one error, to the requesting connection and to
\* no other, and leaves every roster, room membership and current document
\* as it was.
C3_DenialIsLocal ==
    [][ last'.op = "denied" =>
           /\ Len(out') = 1
           /\ out'[1].ev = "error"
           /\ out'[1].to \subseteq {last'.conn}
           /\ UNCHANGED << documentUsers, rooms, currentDocumentId, currentUserInfo >>
      ]_vars

C3_Witness ==
    /\ last.op = "denied"
    /\ out[1].to = {last.conn}
    /\ LiveMembers(last.doc) \ {last.conn} # {}

\* C4: an edit-delta, cursor or title event relayed for a joined connection
\* goes to every other connected member of its document and never to the
\* sender.
C4_RelayExcludesSender ==
    last.op \in RelayOps =>
        /\ Len(out) = 1
        /\ last.conn \notin out[1].to
        /\ out[1].to = LiveMembers(last.doc) \ {last.conn}

C4_Witness == last.op \in RelayOps /\ out[1].to # {}

\* C5: the user-left event of a leave goes to the remaining connected
\* participants of the document, and the roster it carries is the registry's
\* roster of the document after the leave, which has no entry of the leaver.
C5_LeaveRoster ==
    (last.op = "disconnect" /\ out # << >>) =>
        /\ Len(out) = 1
        /\ out[1].ev = "user-left"
        /\ out[1].to = LiveMembers(last.doc)
        /\ last.conn \notin out[1].to
        /\ last.conn \notin SocketIds(RosterOf(documentUsers, last.doc))
        /\ out[1].roster = MapPublic(RosterOf(documentUsers, last.doc))

C5_Witness == last.op = "disconnect" /\ out # << >> /\ out[1].to # {}

\* C6: once a connection's disconnect has been handled and none of its
\* get-document handlers is still suspended, no roster has an entry of it.
C6_CleanupGuaranteed ==
    \A c \in Conns :
        (conn[c] = "closed" /\ \A t \in BagToSet(tasks) : t.conn # c)
            => RostersOf(documentUsers, c) = {}

\* C7: a connection that has completed no successful join has an entry in no
\* roster, and its disconnect changes no roster and emits nothing.
C7_NeverJoinedIsAbsent ==
    [][ /\ \A c \in Conns \ joined' : RostersOf(documentUsers', c) = {}
        /\ (last'.op = "disconnect" /\ last'.conn \notin joined) =>
              documentUsers' = documentUsers /\ out' = << >>
      ]_vars

C7_Witness ==
    /\ last.op = "disconnect" /\ last.conn \notin joined
    /\ requests > 1
    /\ \E a \in joined : SocketIds(RosterOf(documentUsers, "D1")) = {a}

\* C8: every connection has an entry in the roster of at most one document.
C8_OneRosterPerConnection ==
    \A c \in Conns : Cardinality(RostersOf(documentUsers, c)) <= 1

\* C9: the registry holds no room with zero participants.
C9_NoEmptyRoom == \A d \in DOMAIN documentUsers : documentUsers[d] # << >>

C9_Witness ==
    /\ last.op = "disconnect" /\ last.conn \in joined /\ out # << >>
    /\ last.doc \notin DOMAIN documentUsers

\* C10: a document's collaborators hold at most one entry per identity.
C10_OneCollaboratorEntry ==
    \A d \in Docs, u \in Users :
        Cardinality({ i \in DOMAIN store[d].collaborators :
                         store[d].collaborators[i].user = u }) <= 1

\* C12: a successful join emits one user-joined event to every connected
\* socket of the document's room, the joiner included while it is connected;
\* the event carries the joiner's user id, name and color and the registry's
\* roster of the document after the insert, which has the joiner in it.
C12_JoinAnnounced ==
    last.op = "joined" =>
        /\ Len(out) = 2
        /\ out[2].ev = "user-joined"
        /\ out[2].to = LiveMembers(last.doc)
        /\ conn[last.conn] = "connected" => last.conn \in out[2].to
        /\ out[2].who.userId = user[last.conn]
        /\ out[2].who.username = UserName(user[last.conn])
        /\ out[2].who.color \in Colors
        /\ out[2].who = PublicInfo(UsersGet(RosterOf(documentUsers, last.doc), last.conn))
        /\ out[2].roster = MapPublic(RosterOf(documentUsers, last.doc))
        /\ \E i \in DOMAIN out[2].roster : out[2].roster[i] = out[2].who

C12_Witness ==
    /\ last.op = "joined"
    /\ last.conn \in out[2].to
    /\ out[2].to \ {last.conn} # {}
    /\ Len(out[2].roster) = 2

\* the steps of a get-document handler before its registry insert
BeforeInsertOps == {"get-document", "creating", "redeeming", "denied", "failed"}

\* C17: a join whose document fetch, document create or collaborator save
\* fails emits one error event, to the requester, and is not partially
\* applied: no step of the handler up to and including the failure changes a
\* roster, a current document or a room membership, and the failing step
\* writes nothing to the store (a failed collaborator save adds nobody).
C17_FailedJoinNotApplied ==
    [][ /\ last'.op = "failed" =>
              /\ Len(out') = 1
              /\ out'[1].ev = "error"
              /\ out'[1].data = "Failed to load document"
              /\ out'[1].to = {last'.conn} \cap Live(conn)
              /\ store' = store
        /\ last'.op \in BeforeInsertOps =>
              UNCHANGED << documentUsers, currentDocumentId, currentUserInfo, rooms, conn >>
      ]_vars

C17_Witness ==
    /\ last.op = "failed" /\ lastTask.pc = "save"
    /\ out[1].to = {last.conn}
    /\ LiveMembers(last.doc) # {}
    /\ ~IsCollaborator(store[last.doc], user[last.conn])

\* the relay payloads that fail a handler's structural test
MalformedCursors == { p \in CursorPayloads : ~p.present \/ p.index = NotANumber }
MalformedTitles == {NoPayload, NotAString}

\* the state a relay handler has no business with
RelayLeavesAlone ==
    UNCHANGED << conn, handshake, user, currentDocumentId, currentUserInfo, rooms,
                 documentUsers, store, tasks, joined >>

\* C18: a send-changes with no delta, a cursor-move whose payload is absent
\* or has an index that is not a number, and a title-change whose title is
\* absent or not a string are dropped: nothing is emitted, the sender stays
\* connected with its current document, and registry and rooms are unchanged.
C18_MalformedDropped ==
    [][ \A c \in Conns :
          ( \/ SendChanges(c, NoPayload)
            \/ \E p \in MalformedCursors : CursorMove(c, p)
            \/ \E n \in MalformedTitles : TitleChange(c, n) )
          => /\ last'.op = "dropped"
             /\ out' = << >>
             /\ conn'[c] = "connected"
             /\ RelayLeavesAlone
      ]_vars

C18_Witness ==
    /\ last.op = "dropped"
    /\ last.conn \in joined /\ conn[last.conn] = "connected"
    /\ currentDocumentId[last.conn] # NullDoc /\ currentUserInfo[last.conn] # NullInfo
    /\ LiveMembers(last.doc) \ {last.conn} # {}

\* every payload a client can send with a relay event
RelayStep(c) ==
    \/ \E delta \in Deltas \cup {NoPayload} : SendChanges(c, delta)
    \/ \E cursorData \in CursorPayloads : CursorMove(c, cursorData)
    \/ \E newTitle \in Titles \cup {NoPayload, NotAString} : TitleChange(c, newTitle)

\* C19: a send-changes, cursor-move or title-change of a connection that has
\* completed no join, one whose get-document handler still awaits the store
\* included, is dropped: nothing is emitted and no state changes.
C19_UnjoinedDropped ==
    [][ \A c \in Conns \ joined :
          RelayStep(c) => last'.op = "dropped" /\ out' = << >> /\ RelayLeavesAlone
      ]_vars

C19_Witness ==
    /\ last.op = "dropped" /\ last.conn \notin joined
    /\ \E t \in BagToSet(tasks) :
          /\ t.conn = last.conn
          /\ LiveMembers(t.documentId) # {}

\* C20: the disconnect handler run a second time for the same connection
\* changes no roster and emits nothing, and the handler run for a connection
\* that completed no join changes no roster and emits nothing.
C20_CleanupIdempotent ==
    [][ /\ last'.op = "disconnect-again" => documentUsers' = documentUsers /\ out' = << >>
        /\ (last'.op \in {"disconnect", "disconnect-again"} /\ last'.conn \notin joined) =>
              documentUsers' = documentUsers /\ out' = << >>
      ]_vars

C20_Witness ==
    /\ last.op = "disconnect-again" /\ last.conn \in joined
    /\ CleanupGuard(last.conn)
    /\ LiveMembers(last.doc) # {}

\* seq is a prefix of longer
IsPrefix(seq, longer) ==
    Len(seq) <= Len(longer) /\ SubSeq(longer, 1, Len(seq)) = seq

\* the step runs the access check of the handler it belongs to
ChecksAccess == last'.op \in {"denied", "redeeming", "joined"} /\ lastTask'.pc \in {"find", "create"}

\* C11: once disableShareLink has completed for a document its grant stays
\* disabled, and every access check run after that for a user who is neither
\* owner nor collaborator ends in a denial that adds no collaborator, share
\* token or not; the disable removes no collaborator, no step ever does, and
\* the access check of a collaborator still passes after the disable.
C11_DisableStopsRedemption ==
    [][ /\ \A d \in disabled' : ~store'[d].shareLink.enabled
        /\ \A d \in Docs : IsPrefix(store[d].collaborators, store'[d].collaborators)
        /\ (ChecksAccess /\ last'.doc \in disabled) =>
              LET d == last'.doc
                  u == user[last'.conn]
              IN IF IsOwner(store[d], u) \/ IsCollaborator(store[d], u)
                 THEN last'.op = "joined"
                 ELSE last'.op = "denied" /\ store' = store
      ]_vars

C11_Witness ==
    /\ last.op = "denied" /\ last.doc \in disabled
    /\ lastTask.shareToken # NoShareToken
    /\ lastTask.shareToken = store[last.doc].shareLink.token
    /\ store[last.doc].collaborators # << >>
    /\ ~IsCollaborator(store[last.doc], user[last.conn])

\* the events of name ev among the emissions es
EventsOf(es, ev) == { i \in DOMAIN es : es[i].ev = ev }

\* C13 as stated: the payload a successful join emits as load-document is
\* the payload the store holds for the document.
C13_LoadsStoredPayload ==
    last.op = "joined" =>
        /\ EventsOf(out, "load-document") = {1}
        /\ out[1].to \subseteq {last.conn}
        /\ out[1].data = store[last.doc].data

\* the payload of the record the handler read: the snapshot it holds across
\* the collaborator save, else the record of the store call that just returned
FetchedData == IF lastTask'.pc = "save" THEN lastTask'.document.data ELSE store'[last'.doc].data

\* what holds of load-document: a successful join emits one, to the joiner
\* and to no other socket, carrying the payload of the record its handler
\* read from the store; no other step emits load-document, so a denied or
\* failed join emits none.
C13_LoadsFetchedPayload ==
    [][ /\ last'.op = "joined" =>
              /\ EventsOf(out', "load-document") = {1}
              /\ out'[1].to = {last'.conn} \cap Live(conn)
              /\ out'[1].data = FetchedData
        /\ last'.op # "joined" => EventsOf(out', "load-document") = {}
      ]_vars

C13_StaleLoad ==
    /\ last.op = "joined" /\ lastTask.pc = "save"
    /\ out[1].to = {last.conn}
    /\ LiveMembers(last.doc) \ {last.conn} # {}
    /\ out[1].data = lastTask.document.data
    /\ out[1].data # store[last.doc].data

\* the steps in which a save-document handler returns
SaveEndOps == {"save-rejected", "saved", "save-failed"}

\* the acknowledgments among the emissions es
Acks(es) == { es[i] : i \in EventsOf(es, "ack") }

BothSavesApplied(d) ==
    /\ last.op = "store-write" /\ last.doc = d
    /\ lastSave.data = Payload(1)
    /\ \E o \in BagToSet(saves) :
          /\ o.data = Payload(2) /\ o.pc = "written"
          /\ o.documentId = d /\ o.conn # last.conn

\* C15: when two sockets joined to D1 save P1 and P2, the save of P2
\* arriving while the save of P1 is in flight, the store ends with P2.
C15_LastArrivalWins == BothSavesApplied("D1") => store["D1"].data = Payload(2)

\* C16: a save-document handler broadcasts document-saved only after the
\* store applied its update, to every connected socket of the room of the
\* document it saved, the saver included, and a save whose store call fails
\* or that is refused broadcasts nothing.
C16_SavedToRoomAfterWrite ==
    /\ last.op = "saved" =>
          /\ lastSave.pc = "written"
          /\ store[last.doc].exists
          /\ EventsOf(out, "document-saved") = {1}
          /\ out[1].to = IoTo(conn, rooms, last.doc)
          /\ conn[last.conn] = "connected" => last.conn \in out[1].to
    /\ last.op \in {"save-failed", "save-rejected"} => EventsOf(out, "document-saved") = {}

\* C24: every cursor-update broadcast carries the userId, username and color
\* of the sending connection's participant record, for every cursor payload.
C24_CursorCarriesSender ==
    last.op = "cursor-move" =>
        /\ Len(out) = 1
        /\ out[1].ev = "cursor-update"
        /\ out[1].who = PublicInfo(currentUserInfo[last.conn])

\* C30: a roster holds at most one entry per connection, also after a
\* connection that is in the roster of a document joins that document again.
C30_OneEntryPerConnection ==
    \A d \in DOMAIN documentUsers :
        /\ Cardinality(SocketIds(documentUsers[d])) = Len(documentUsers[d])
        /\ SocketIds(documentUsers[d]) \subseteq joined
        /\ Len(documentUsers[d]) <= Cardinality(joined)

\* a join of the connection that was first in the roster already: a new key
\* of the Map would have gone last
C30_Witness ==
    /\ last.op = "joined"
    /\ Len(RosterOf(documentUsers, last.doc)) = 2
    /\ RosterOf(documentUsers, last.doc)[1].socketId = last.conn

\* C23: joins of one document whose handlers are in flight together lose no
\* roster update: a step removes a socket from a roster only when it is that
\* socket's disconnect, a completed join leaves the joiner in the roster, and
\* so every connected socket whose join completed is in its document's roster.
C23_NoLostJoin ==
    [][ \A d \in Docs :
           /\ \A c \in SocketIds(RosterOf(documentUsers, d)) :
                 \/ c \in SocketIds(RosterOf(documentUsers', d))
                 \/ last'.op = "disconnect" /\ last'.conn = c
           /\ (last'.op = "joined" /\ last'.doc = d)
                 => last'.conn \in SocketIds(RosterOf(documentUsers', d))
           /\ \A c \in Conns :
                 (conn'[c] = "connected" /\ currentDocumentId'[c] = d)
                    => c \in SocketIds(RosterOf(documentUsers', d)) ]_vars

\* the second of two joins in flight together completes: the document it
\* fetched had no collaborator and the stored one has two, so the first
\* joiner redeemed and was admitted while the second handler was suspended
C23_Witness ==
    /\ last.op = "joined"
    /\ lastTask.pc = "save"
    /\ \E c \in Conns \ {last.conn} :
          /\ conn[c] = "connected"
          /\ currentDocumentId[c] = last.doc
          /\ Len(lastTask.document.collaborators) = 0
          /\ Len(store[last.doc].collaborators) = 2
          /\ SocketIds(RosterOf(documentUsers, last.doc)) = {c, last.conn}
          /\ RosterOf(documentUsers, last.doc)[1].socketId = c
    /\ requests = 2

\* the positions of the presence events among the emissions es
PresenceEvents(es) == EventsOf(es, "user-joined") \cup EventsOf(es, "user-left")

\* C22: the members of a room observe joins and leaves in the order of the
\* registry's commits, each with the roster right after its commit: a step
\* commits to at most one roster, a step that changes a roster emits in the
\* same step exactly one presence event, and every presence event goes to
\* all connected members of its room with that room's roster as committed.
C22_NotifiedInCommitOrder ==
    [][ LET changed == { d \in Docs : RosterOf(documentUsers', d) # RosterOf(documentUsers, d) }
            notes == PresenceEvents(out')
        IN /\ Cardinality(changed) <= 1
           /\ Cardinality(notes) <= 1
           /\ changed # {} => notes # {} /\ changed = {last'.doc}
           /\ \A i \in notes :
                 /\ last'.doc \in Docs
                 /\ out'[i].roster = MapPublic(RosterOf(documentUsers', last'.doc))
                 /\ out'[i].to = { c \in Conns : /\ conn'[c] = "connected"
                                                  /\ c \in SocketIds(RosterOf(documentUsers',
                                                                               last'.doc)) }
                 /\ out'[i].ev = "user-joined" <=> last'.op = "joined"
                 /\ out'[i].ev = "user-left" <=> last'.op = "disconnect" ]_vars

\* a member that saw another socket join now sees it leave: the leave is
\* announced to the member with the one-entry roster the delete left
C22_Witness ==
    /\ last.op = "disconnect"
    /\ PresenceEvents(out) = {1}
    /\ out[1].to # {}
    /\ Len(out[1].roster) = 1
    /\ \A c \in out[1].to : RosterOf(documentUsers, last.doc)[1].socketId = c

\* C25: findOrCreateDocument yields a record for every non-null id, the
\* stored one when the id has a record and a created one with the empty
\* payload otherwise, also for each of two calls for one absent id that are
\* in flight together: no call ends in the handler's catch block, and once a
\* create has returned the id has its record.
C25_FetchOrCreateYields ==
    lastTask.pc \in {"find", "create"} =>
        /\ last.op # "failed"
        /\ lastTask.pc = "create" =>
              /\ store[lastTask.documentId].exists
              /\ store[lastTask.documentId].data = "empty"
              /\ store[lastTask.documentId].title = DefaultTitle

\* C21: the failure of a connection's event stays with that connection: a
\* step taken for one connection closes no other connection, takes no other
\* connection out of a room or a roster, and ends no other connection's
\* suspended handler.
C21_FailuresStayLocal ==
    [][ \A c \in Conns \ {last'.conn} :
           /\ conn'[c] = conn[c]
           /\ rooms'[c] = rooms[c]
           /\ RostersOf(documentUsers', c) = RostersOf(documentUsers, c)
           /\ \A t \in BagToSet(tasks) : t.conn = c => BagIn(t, tasks') ]_vars

\* the share tokens generated so far
EverIssued == { IssuedToken(k) : k \in 1..issued }

\* the tokens that pass hasValidShareToken for document d
Admitting(d) == { k \in IssuedTokens : HasValidShareToken(store[d], k) }

\* C26: a document has at most one active share grant: at most one token
\* passes the share-token test; a re-issue stores a token never issued
\* before, so that an access check run after it for a user who is neither
\* owner nor collaborator admits the stored token alone and denies every
\* token issued earlier; and a disable turns enabled off and keeps the token.
C26_OneActiveGrant ==
    [][ /\ \A d \in Docs : Cardinality(Admitting(d)') <= 1
        /\ last'.op = "share-generated" =>
              /\ store'[last'.doc].shareLink.token \notin EverIssued
              /\ store'[last'.doc].shareLink.enabled
        /\ last'.op = "share-disabled" =>
              /\ ~store'[last'.doc].shareLink.enabled
              /\ store'[last'.doc].shareLink.token = store[last'.doc].shareLink.token
        /\ (/\ ChecksAccess
            /\ ~IsOwner(store[last'.doc], user[last'.conn])
            /\ ~IsCollaborator(store[last'.doc], user[last'.conn])) =>
              /\ last'.op \in {"redeeming", "joined"} <=>
                    /\ store[last'.doc].shareLink.enabled
                    /\ lastTask'.shareToken = store[last'.doc].shareLink.token
              /\ (/\ lastTask'.shareToken \in EverIssued
                  /\ lastTask'.shareToken # store[last'.doc].shareLink.token) =>
                    last'.op = "denied" ]_vars

\* a join presenting the first token is denied after the re-issue that
\* stored the second, enabled token
C26_Witness ==
    /\ last.op = "denied"
    /\ lastTask.shareToken = IssuedToken(1)
    /\ store[last.doc].shareLink.token = IssuedToken(2)
    /\ store[last.doc].shareLink.enabled

\* C27: a join of a user who is neither owner nor collaborator with the
\* document's enabled share token goes through the redemption, which appends
\* the user to the collaborators with the permission of the grant whose
\* token was presented; the join is admitted and the user-joined event with
\* the user in its roster reaches the members already in the room.
C27_RedemptionAdmits ==
    [][ LET t == lastTask'
            c == t.conn
            d == t.documentId
        IN /\ (/\ t.pc = "find" /\ last'.op # "get-document"
               /\ NeedsRedemption(store[d], user[c], t.shareToken)) =>
                 last'.op = "redeeming"
           /\ t.pc = "save" =>
                 /\ t.document.shareLink.token = t.shareToken
                 /\ store'[d].collaborators =
                       Append(store[d].collaborators,
                              [user |-> user[c], permission |-> t.document.shareLink.permission])
                 /\ last'.op = "joined"
                 /\ d \in rooms'[c]
                 /\ EventsOf(out', "user-joined") = {2}
                 /\ LiveMembers(d) \subseteq out'[2].to
                 /\ \E i \in DOMAIN out'[2].roster :
                       /\ out'[2].roster[i].userId = user[c]
                       /\ out'[2].roster[i] = out'[2].who ]_vars

\* B redeemed the editor grant of D1 while the owner's socket was in the
\* room: B is the one collaborator, as editor, and both sockets got the event
C27_Witness ==
    /\ last.op = "joined"
    /\ lastTask.pc = "save"
    /\ lastTask.document.shareLink.permission = "editor"
    /\ store[last.doc].collaborators = << [user |-> "UB", permission |-> "editor"] >>
    /\ store[last.doc].owner = "UA"
    /\ \E a \in Conns \ {last.conn} : user[a] = "UA" /\ {a, last.conn} \subseteq out[2].to

\* C29: generateShareLink by the owner with permission viewer or editor
\* stores an enabled grant with that permission and a token never issued
\* before and answers 200 with them; with any other permission it answers
\* 400 and the record stays as it is.
C29_GenerateOrReject ==
    [][ \A d \in Docs, permission \in Permissions \cup OtherPermissions :
           (/\ store[d].exists
            /\ GenerateShareLink(store[d].owner, d, permission, TRUE)) =>
              IF permission \in Permissions
              THEN /\ store'[d].shareLink.enabled
                   /\ store'[d].shareLink.permission = permission
                   /\ store'[d].shareLink.token \notin EverIssued
                   /\ store' = [store EXCEPT ![d].shareLink = store'[d].shareLink]
                   /\ out' = << Response(200, [token |-> store'[d].shareLink.token,
                                               permission |-> permission, enabled |-> TRUE]) >>
              ELSE /\ out'[1].status = 400
                   /\ store' = store ]_vars

\* the owner's request with permission editor has replaced the viewer grant
C29_Witness ==
    /\ last.op = "share-generated"
    /\ out[1].status = 200
    /\ out[1].data.permission = "editor"
    /\ store[last.doc].shareLink =
          [token |-> IssuedToken(2), permission |-> "editor", enabled |-> TRUE]

\* C28: a request to a document route other than the public shared-access
\* route that carries no token, or one that does not verify, is answered
\* with status 401 and changes no document record.
C28_UnauthenticatedRejected ==
    [][ \A token \in HttpTokens \ SignedTokens :
           ProtectedRoutes(token) =>
              /\ Len(out') = 1
              /\ out'[1].ev = "response"
              /\ out'[1].status = 401
              /\ store' = store
              /\ issued' = issued ]_vars

\* a request without a valid token for D1 is turned away while D1 has the
\* collaborator and the re-issued grant that earlier requests gave it
C28_Witness ==
    /\ last.op = "unauthorized"
    /\ last.doc = "D1"
    /\ out[1].status = 401
    /\ store["D1"].collaborators # << >>
    /\ store["D1"].shareLink.token = IssuedToken(2)

JoinRequested(c) ==
    last.conn = c /\ last.op \in {"get-document", "unhandled-rejection"}

\* a get-document handler of socket c has ended and its events went to c
JoinOutcome(c) ==
    /\ last.conn = c
    /\ last.op \in {"joined", "denied", "failed"}
    /\ out # << >>
    /\ \A i \in DOMAIN out : c \in out[i].to

\* C32: every get-document request, whatever its payload, is answered in the
\* end on the requesting connection while that connection is open, store
\* calls returning or failing: by load-document and user-joined or by an
\* error event.
C32_JoinAnswered ==
    \A c \in Conns : JoinRequested(c) ~> (JoinOutcome(c) \/ conn[c] # "connected")

\* the record the get-document handler of task t decides on: the one it
\* fetched, now or before it was suspended in document.save()
Fetched(t) == IF t.pc = "save" THEN t.document ELSE store[t.documentId]

\* the user of the socket of task t is the owner or a collaborator of the
\* record the handler fetched
MemberAtFetch(t) ==
    IsOwner(Fetched(t), user[t.conn]) \/ IsCollaborator(Fetched(t), user[t.conn])

\* C33: a step of a get-document handler whose user is the owner or a
\* collaborator of the record it fetched leaves the stored documents, and
\* with them the collaborators, as they are, whatever share token the
\* request carries.
C33_MembersJoinWithoutWrite ==
    [][ (lastTask' # NoTask /\ lastTask'.documentId \in Docs /\ MemberAtFetch(lastTask'))
           => store' = store ]_vars

\* a collaborator has joined with the valid token of a grant whose
\* permission is not the collaborator's
C33_Witness ==
    /\ last.op = "joined"
    /\ lastTask.pc = "find"
    /\ HasValidShareToken(store[last.doc], lastTask.shareToken)
    /\ \E i \in DOMAIN store[last.doc].collaborators :
          /\ store[last.doc].collaborators[i].user = user[last.conn]
          /\ store[last.doc].collaborators[i].permission # store[last.doc].shareLink.permission

\* the socket ids of a roster, in the order of the Map
Ids(users) == [i \in DOMAIN users |-> users[i].socketId]

\* a sequence of socket ids without the socket c
Without(ids, c) == SelectSeq(ids, LAMBDA b : b # c)

\* C34: the roster of a room is in the order its sockets were first
\* inserted: a join puts a new socket last and leaves a socket that is
\* already there in its place, a disconnect takes the socket out of the roster of its
\* current document without moving the others, no other step touches a
\* roster, and user-joined and user-left carry the roster in that order.
C34_InsertionOrder ==
    [][ \A d \in Docs :
           LET old == RosterOf(documentUsers, d)
               new == RosterOf(documentUsers', d)
               c == last'.conn
           IN /\ Ids(new) =
                    IF last'.op = "joined" /\ last'.doc = d
                    THEN (IF c \in SocketIds(old) THEN Ids(old) ELSE Append(Ids(old), c))
                    ELSE IF last'.op = "disconnect" /\ last'.doc = d
                    THEN Without(Ids(old), c)
                    ELSE Ids(old)
              /\ (last'.doc = d /\ last'.op = "joined")
                    => out'[2].ev = "user-joined" /\ out'[2].roster = MapPublic(new)
              /\ (last'.doc = d /\ last'.op = "disconnect")
                    => \A i \in DOMAIN out' :
                          out'[i].ev = "user-left" /\ out'[i].roster = MapPublic(new) ]_vars

\* socket 1 has left a room of three and user-left lists the two that stay,
\* socket 2 before socket 3
C34_Witness ==
    /\ last.op = "disconnect"
    /\ last.conn = 1
    /\ out # << >>
    /\ Ids(RosterOf(documentUsers, last.doc)) = << 2, 3 >>
    /\ out[1].roster = MapPublic(RosterOf(documentUsers, last.doc))

\* C35: the document-saved event of a save goes to the sockets in the room
\* of the document the save wrote, whatever the saving socket has joined
\* while the write was in flight.
C35_SavedToWrittenRoom ==
    last.op = "saved" =>
        \A i \in EventsOf(out, "document-saved") :
            out[i].to = IoTo(conn, rooms, lastSave.documentId)

\* C36: a get-document request that is denied or fails on a socket that has
\* joined a document leaves the socket where it was: its entry in the
\* roster of that document and the place of the entry, the sockets its
\* relays reach, and the document its next save-document would write.
C36_RefusedJoinKeepsRoom ==
    [][ \A c \in Conns :
           LET D == currentDocumentId[c]
           IN (last'.conn = c /\ last'.op \in {"denied", "failed"} /\ D # NullDoc)
                 => /\ RosterOf(documentUsers', D) = RosterOf(documentUsers, D)
                    /\ BroadcastTo(conn', rooms', c, currentDocumentId'[c])
                          = BroadcastTo(conn, rooms, c, D)
                    /\ IoTo(conn', rooms', currentDocumentId'[c]) = IoTo(conn, rooms, D)
                    /\ currentDocumentId'[c] = D
                    /\ currentUserInfo'[c] = currentUserInfo[c] ]_vars

\* a socket in the roster of a document, with another socket to relay to,
\* has asked for another document and the store call of that request failed
C36_Witness ==
    /\ last.op = "failed"
    /\ lastTask.pc \in {"find", "create", "save"}
    /\ currentDocumentId[last.conn] \in Docs \ {last.doc}
    /\ UsersHas(RosterOf(documentUsers, currentDocumentId[last.conn]), last.conn)
    /\ RelayTargets(last.conn) # {}

\* C37: the step of a get-document handler that creates the record of an
\* absent document id stores a record without owner and collaborators and
\* with a disabled share link, and denies the requester, who enters neither
\* the roster nor the room; no handler that found the id absent ends with a
\* join, whatever share token it carries.
C37_CreatorNotAdmitted ==
    [][ /\ \A d \in Docs :
              (~store[d].exists /\ store'[d].exists)
                 => /\ store'[d].owner = NoUser
                    /\ store'[d].collaborators = << >>
                    /\ ~store'[d].shareLink.enabled
                    /\ store'[d].shareLink.token = NoShareToken
                    /\ last'.op = "denied" /\ last'.doc = d
                    /\ Len(out') = 1
                    /\ out'[1].ev = "error"
                    /\ out'[1].to = {last'.conn} \cap Live(conn)
                    /\ UNCHANGED << documentUsers, rooms, currentDocumentId, currentUserInfo >>
        /\ lastTask'.pc = "create" => last'.op \in {"denied", "failed"} ]_vars

\* a request with a share token has created a record and has been denied
C37_Witness ==
    /\ last.op = "denied"
    /\ lastTask.pc = "create"
    /\ lastTask.shareToken # NoShareToken
    /\ store[last.doc] = CreatedDoc
    /\ out[1].to = {last.conn}
    /\ last.conn \notin SocketIds(RosterOf(documentUsers, last.doc))

\* the user the io.use middleware attached to socket c
Established(c) == Authenticate(handshake[c])

\* C38: the userId and username of every roster entry and of every
\* user-joined and user-left payload are those of the user the middleware
\* attached to the socket, and a get-document request does the same
\* whatever its payload carries next to documentId and shareToken.
C38_IdentityFromAuthentication ==
    [][ /\ \A d \in DOMAIN documentUsers' :
              \A i \in DOMAIN documentUsers'[d] :
                 LET e == documentUsers'[d][i]
                 IN /\ Established(e.socketId) # NoUser
                    /\ e.userId = Established(e.socketId)
                    /\ e.username = UserName(Established(e.socketId))
        /\ \A i \in DOMAIN out' :
              out'[i].ev \in {"user-joined", "user-left"}
                 => /\ out'[i].who.userId = Established(last'.conn)
                    /\ out'[i].who.username = UserName(Established(last'.conn))
                    /\ out'[i].roster = MapPublic(RosterOf(documentUsers', last'.doc))
        /\ \A c \in Conns, p, q \in JoinPayloads :
              (p.documentId = q.documentId /\ p.shareToken = q.shareToken)
                 => (GetDocumentPayload(c, p) => GetDocumentPayload(c, q)) ]_vars

\* socket 2, of user UB, has joined behind socket 1 and both entries of the
\* roster carry their own user; the requests of the run can have named
\* other users in their payloads
C38_Witness ==
    /\ last.op = "joined"
    /\ last.conn = 2
    /\ Established(1) = "UA" /\ Established(2) = "UB"
    /\ Len(out[2].roster) = 2
    /\ out[2].who.userId = "UB"
    /\ out[2].roster[1].userId = "UA" /\ out[2].roster[2].userId = "UB"

\* socket c is open and in the roster of its current document, to which
\* the access check would not admit its user any more, with or without the
\* share token
Revoked(c) ==
    /\ conn[c] = "connected"
    /\ currentDocumentId[c] \in Docs
    /\ UsersHas(RosterOf(documentUsers, currentDocumentId[c]), c)
    /\ \A k \in ShareTokens \cup {NoShareToken} :
          ~HasAccess(store[currentDocumentId[c]], user[c], k)

\* C39: access is decided at the join only. Removing a collaborator and
\* disabling the share link leave rosters, rooms and sockets as they are,
\* and while a socket that would not be admitted any more stays open, its
\* send-changes, cursor-move and title-change are relayed to the others in
\* the room and its save-document is accepted and written to the store.
C39_AccessDecidedAtJoin ==
    [][ /\ last'.op \in {"removed", "share-disabled"}
              => UNCHANGED << documentUsers, rooms, currentDocumentId, currentUserInfo, conn >>
        /\ \A c \in Conns :
              Revoked(c) =>
                 LET D == currentDocumentId[c]
                 IN /\ \A delta \in Deltas :
                          SendChanges(c, delta) =>
                             /\ Len(out') = 1
                             /\ out'[1].ev = "receive-changes"
                             /\ out'[1].data = delta
                             /\ out'[1].to = BroadcastTo(conn, rooms, c, D)
                    /\ CursorMove(c, PlainCursor) =>
                          /\ Len(out') = 1
                          /\ out'[1].ev = "cursor-update"
                          /\ out'[1].to = BroadcastTo(conn, rooms, c, D)
                    /\ \A newTitle \in Titles :
                          TitleChange(c, newTitle) =>
                             /\ Len(out') = 1
                             /\ out'[1].ev = "title-update"
                             /\ out'[1].data = newTitle
                             /\ out'[1].to = BroadcastTo(conn, rooms, c, D)
                    /\ SaveDocument(c, TRUE) =>
                          /\ last'.op = "save-document"
                          /\ BagIn(SaveRequest(c, TRUE), saves')
                          /\ SaveRequest(c, TRUE).documentId = D
                    /\ \A s \in BagToSet(saves) :
                          (s.conn = c /\ SaveWrite(s)) => store'[s.documentId].data = s.data
                    /\ \A s \in BagToSet(saves) :
                          (s.conn = c /\ SaveReturn(s)) =>
                             /\ out'[1].ev = "document-saved"
                             /\ out'[1].to = IoTo(conn, rooms, D) ]_vars

\* the store has written the save of a socket whose user was removed from
\* the collaborators after the join, the share link being disabled, while
\* the owner is in the room
C39_Witness ==
    /\ last.op = "store-write"
    /\ Revoked(last.conn)
    /\ user[last.conn] = "UB"
    /\ last.doc \in disabled
    /\ store[last.doc].data = lastSave.data
    /\ store[last.doc].data # "empty"
    /\ RelayTargets(last.conn) # {}

\* the permissions under which the user of socket c holds its current
\* document: owner, or the permission of each of its collaborator entries
PermissionsOf(c) ==
    LET document == store[currentDocumentId[c]]
    IN (IF IsOwner(document, user[c]) THEN {"owner"} ELSE {})
          \cup { document.collaborators[i].permission :
                    i \in { j \in DOMAIN document.collaborators :
                               document.collaborators[j].user = user[c] } }

\* C40: after the join the handlers serve every permission alike: the
\* send-changes of an open socket in the roster of its current document is
\* relayed to the others in the room and its save-document is accepted and
\* written to the store, be the socket's user owner, editor or viewer of
\* the document.
C40_PermissionNotConsulted ==
    [][ \A c \in Conns :
           (/\ conn[c] = "connected"
            /\ currentDocumentId[c] \in Docs
            /\ UsersHas(RosterOf(documentUsers, currentDocumentId[c]), c)
            /\ PermissionsOf(c) \subseteq {"owner", "editor", "viewer"})
              => /\ \A delta \in Deltas :
                       SendChanges(c, delta) =>
                          out' = << Emission("receive-changes",
                                             BroadcastTo(conn, rooms, c, currentDocumentId[c]),
                                             NoPublic, << >>, delta) >>
                 /\ SaveDocument(c, TRUE) =>
                       /\ last' = Step("save-document", c, currentDocumentId[c])
                       /\ saves' = saves (+) SetToBag({SaveRequest(c, TRUE)})
                 /\ \A s \in BagToSet(saves) :
                       (s.conn = c /\ SaveWrite(s)) => store'[s.documentId].data = s.data ]_vars

\* the store has written the payload saved by a socket whose user is a
\* viewer of the document and nothing more
C40_Witness ==
    /\ last.op = "store-write"
    /\ conn[last.conn] = "connected"
    /\ currentDocumentId[last.conn] = last.doc
    /\ PermissionsOf(last.conn) = {"viewer"}
    /\ store[last.doc].data = lastSave.data
    /\ store[last.doc].data # "empty"

====
